---- MODULE Spec2Model ----
(***************************************************************************)
(* Document assembly and version-aware schema normalization of            *)
(* nestjs-openapi-next: the schema normalizer (normalizeNullableSchema),  *)
(* the container transforms, the version gate (isOas31OrAbove),           *)
(* SwaggerModule.createDocument and SwaggerTransformer.normalizePaths.    *)
(*                                                                         *)
(* JavaScript values are encoded as follows.                               *)
(*   object          a function from its own keys (strings) to values;    *)
(*                   a key that is absent is not in the DOMAIN            *)
(*   schema slot     a tagged node: Obj(o) for an object, Bool(b) for a   *)
(*                   boolean, Undef for undefined                         *)
(*   type            Str(s) for a scalar, List(l) for an array            *)
(*   bounds          Bool(b) for a boolean flag, Num(n) for a number,     *)
(*                   Str(s) for a value that is neither                   *)
(*   array           a sequence                                           *)
(***************************************************************************)
EXTENDS Integers, Sequences, FiniteSets, TLC

VARIABLES
  pc,              \* position of the running scenario
  schema,          \* normalizer scenario: the node handed to normalizeNullableSchema
  once,            \* normalizer scenario: the result of the first call
  twice,           \* normalizer scenario: the result of normalizing `once` again
  openapi,         \* version scenario: the string handed to isOas31OrAbove
  gate,            \* version scenario: what isOas31OrAbove returned
  config,          \* document scenario: the configuration given to createDocument
  scanned,         \* document scenario: what scanApplication returned
  mergedDocument,  \* document scenario: the merged document before normalization
  document,        \* document scenario: what createDocument returned
  memory,          \* document scenario: the objects of createDocument, by address
  denormalizedDoc, \* route scenario: the routes handed to normalizePaths
  options,         \* route scenario: the options handed to normalizePaths
  normalized,      \* route scenario: what normalizePaths returned
  tagObjects,        \* group scenario: the tags handed to buildXTagGroups
  operationTagNames, \* group scenario: the operation tag names handed to it
  xTagGroups,        \* group scenario: what buildXTagGroups returned
  schemaTable,       \* walk scenario: the schemas by name, references among them
  stack,             \* walk scenario: the nodes normalizeNullableSchema is yet to be called on
  called,            \* walk scenario: the nodes it was called on, in order
  heap,              \* walk scenario: the objects in memory, by address
  userTags,          \* tag scenario: the configuration's tags handed to mergeTags
  scanTags,          \* tag scenario: the scanned tags handed to mergeTags
  mergedTagList,     \* tag scenario: what mergeTags returned
  documentOrFactory, \* serve scenario: the document or factory given to setup
  swaggerOptions,    \* serve scenario: the options given to setup
  registered,        \* serve scenario: the endpoints registered on the adapter
  builtDocument,     \* serve scenario: `document` of serveDocuments
  swaggerUiInitJS,   \* serve scenario: the init script kept by serveSwaggerUi
  swaggerUiHtml,     \* serve scenario: the page kept by serveSwaggerUi
  factoryCalls,      \* serve scenario: how often the factory was invoked
  sent               \* serve scenario: the responses sent, in order

normVars == <<schema, once, twice>>
versionVars == <<openapi, gate>>
docVars == <<config, scanned, mergedDocument, document, memory>>
routeVars == <<denormalizedDoc, options, normalized>>
groupVars == <<tagObjects, operationTagNames, xTagGroups>>
walkVars == <<schemaTable, stack, called, heap>>
tagVars == <<userTags, scanTags, mergedTagList>>
serveVars ==
  <<documentOrFactory, swaggerOptions, registered, builtDocument, swaggerUiInitJS,
    swaggerUiHtml, factoryCalls, sent>>
vars == <<pc, normVars, versionVars, docVars, routeVars, groupVars, walkVars, tagVars, serveVars>>

----------------------------------------------------------------------------
\* Value constructors

Undef == [k |-> "undefined"]
Bool(b) == [k |-> "bool", b |-> b]
Num(n) == [k |-> "num", n |-> n]
Str(s) == [k |-> "str", s |-> s]
List(l) == [k |-> "list", l |-> l]
Obj(o) == [k |-> "obj", o |-> o]
\* a pointer to the object at an address in memory
Ptr(address) == [k |-> "ptr", to |-> address]
IsPtr(v) == v.k = "ptr"

EmptyObject == [x \in {} |-> Undef]

Has(o, key) == key \in DOMAIN o
Put(o, key, v) == [x \in DOMAIN o \cup {key} |-> IF x = key THEN v ELSE o[x]]
Delete(o, key) == [x \in DOMAIN o \ {key} |-> o[x]]

IsObj(v) == v.k = "obj"
IsBool(v) == v.k = "bool"
IsNum(v) == v.k = "num"
IsList(v) == v.k = "list"

Includes(l, x) == \E i \in 1..Len(l) : l[i] = x

\* memory after the writes: a written cell holds what was written
Store(h, cells) ==
  [address \in DOMAIN h \cup DOMAIN cells |->
     IF address \in DOMAIN cells THEN cells[address] ELSE h[address]]

----------------------------------------------------------------------------
\* The schema normalizer

NULL_TYPE_SCHEMA == Obj([type |-> Str("null")])

\* a variant that takes only an object with nothing but $ref for a reference
IsRefBare(o) == DOMAIN o = {"$ref"} /\ o["$ref"] # ""

\* !!value.$ref on an object: its $ref is a non-empty string
IsRef(o) == Has(o, "$ref") /\ o["$ref"] # ""

\* isReferenceObject on a schema slot (value?.$ref: undefined and booleans
\* have none)
isReferenceObject(value) == IsObj(value) /\ IsRef(value.o)

\* item.type === 'null' || (Array.isArray(item.type) && item.type.includes('null'))
DenotesNull(item) ==
  /\ IsObj(item)
  /\ Has(item.o, "type")
  /\ \/ item.o["type"] = Str("null")
     \/ IsList(item.o["type"]) /\ Includes(item.o["type"].l, "null")

\* a variant that appends the null option without looking for one
appendNullOptionAlways(schemas) == Append(schemas, NULL_TYPE_SCHEMA)

appendNullOption(schemas) ==
  LET hasNull == \E i \in 1..Len(schemas) :
                   ~isReferenceObject(schemas[i]) /\ DenotesNull(schemas[i])
  IN IF hasNull THEN schemas ELSE Append(schemas, NULL_TYPE_SCHEMA)

RECURSIVE normalizeNullableSchema(_)

\* list.map((item) => normalizeNullableSchema(item))
NormalizeAll(l) == [i \in 1..Len(l) |-> normalizeNullableSchema(l[i])]

\* lines 84-136: every schema-bearing slot of the copy is normalized
NormalizeChildren(o) ==
  LET Sub(n) == normalizeNullableSchema(n)
  IN [key \in DOMAIN o |->
       CASE key \in {"properties", "patternProperties"} ->
              [name \in DOMAIN o[key] |-> Sub(o[key][name])]
         [] key \in {"additionalProperties", "items"} ->
              IF IsObj(o[key]) THEN Sub(o[key]) ELSE o[key]
         [] key \in {"allOf", "oneOf", "anyOf"} -> NormalizeAll(o[key])
         [] key = "not" ->
              IF o[key] \in {Undef, Bool(FALSE)} THEN o[key] ELSE Sub(o[key])
         [] OTHER -> o[key]]

\* a variant that copies the bound into the flag and keeps the bound
MigrateExclusiveBoundKeepsBound(o, flag, bound) ==
  IF Has(o, flag) /\ IsBool(o[flag])
  THEN IF o[flag].b = TRUE /\ Has(o, bound) /\ IsNum(o[bound])
       THEN Put(o, flag, o[bound])
       ELSE Delete(o, flag)
  ELSE o

\* lines 146-154 (flag = exclusiveMinimum, bound = minimum) and
\* lines 156-164 (flag = exclusiveMaximum, bound = maximum)
MigrateExclusiveBound(o, flag, bound) ==
  IF Has(o, flag) /\ IsBool(o[flag])
  THEN IF o[flag].b = TRUE /\ Has(o, bound) /\ IsNum(o[bound])
       THEN Delete(Put(o, flag, o[bound]), bound)
       ELSE Delete(o, flag)
  ELSE o

MigrateExclusiveBounds(o) ==
  MigrateExclusiveBound(
    MigrateExclusiveBound(o, "exclusiveMinimum", "minimum"),
    "exclusiveMaximum", "maximum")

\* line 166: converted.nullable === true
IsNullable(o) == Has(o, "nullable") /\ o["nullable"] = Bool(TRUE)

\* a variant that leaves the nullable flag on the copy
StripNullableKept(o) == o

\* lines 167-169
StripNullable(o) == Delete(o, "nullable")

\* a variant that appends 'null' without looking for it in the list
WidenTypeAlwaysAppends(o) ==
  LET types == IF IsList(o["type"]) THEN o["type"].l ELSE <<o["type"].s>>
  IN Put(o, "type", List(Append(types, "null")))

\* lines 174-180: the type becomes a list that includes 'null'
WidenType(o) ==
  LET types == IF IsList(o["type"]) THEN o["type"].l ELSE <<o["type"].s>>
  IN Put(o, "type",
         List(IF Includes(types, "null") THEN types ELSE Append(types, "null")))

\* a variant that widens an allOf composition in place instead of wrapping it
WidenNullableAllOfInPlace(o) ==
  IF Has(o, "type") THEN Obj(WidenType(o))
  ELSE IF Has(o, "oneOf") THEN Obj(Put(o, "oneOf", appendNullOption(o["oneOf"])))
  ELSE IF Has(o, "anyOf") THEN Obj(Put(o, "anyOf", appendNullOption(o["anyOf"])))
  ELSE IF Has(o, "allOf") THEN Obj(Put(o, "allOf", appendNullOption(o["allOf"])))
  ELSE Obj([anyOf |-> appendNullOption(<<Obj(o)>>)])

\* a variant that puts the null option before the node it wraps
WidenNullableNullFirst(o) ==
  IF Has(o, "type") THEN Obj(WidenType(o))
  ELSE IF Has(o, "oneOf") THEN Obj(Put(o, "oneOf", appendNullOption(o["oneOf"])))
  ELSE IF Has(o, "anyOf") THEN Obj(Put(o, "anyOf", appendNullOption(o["anyOf"])))
  ELSE Obj([anyOf |-> <<NULL_TYPE_SCHEMA, Obj(o)>>])

\* lines 174-200: what a node that was nullable is turned into
WidenNullable(o) ==
  IF Has(o, "type") THEN Obj(WidenType(o))
  ELSE IF Has(o, "oneOf") THEN Obj(Put(o, "oneOf", appendNullOption(o["oneOf"])))
  ELSE IF Has(o, "anyOf") THEN Obj(Put(o, "anyOf", appendNullOption(o["anyOf"])))
  ELSE IF Has(o, "allOf") THEN Obj([anyOf |-> appendNullOption(<<Obj(o)>>)])
  ELSE Obj([anyOf |-> appendNullOption(<<Obj(o)>>)])

normalizeNullableSchema(node) ==
  IF node = Undef \/ node = Bool(FALSE) THEN node          \* !schema
  ELSE IF isReferenceObject(node) THEN node
  ELSE
    LET source == IF IsObj(node) THEN node.o ELSE EmptyObject   \* { ...schema }
        converted == StripNullable(MigrateExclusiveBounds(NormalizeChildren(source)))
    IN IF ~IsNullable(source) THEN Obj(converted)
       ELSE WidenNullable(converted)

----------------------------------------------------------------------------
\* The variables of the scenarios that are not running

NormIdle == schema = Undef /\ once = Undef /\ twice = Undef
VersionIdle == openapi = Undef /\ gate = FALSE
DocIdle ==
  /\ config = Undef /\ scanned = Undef /\ mergedDocument = Undef /\ document = Undef
  /\ memory = Undef
RouteIdle == denormalizedDoc = <<>> /\ options = Undef /\ normalized = Undef
GroupIdle == tagObjects = Undef /\ operationTagNames = Undef /\ xTagGroups = Undef
TagIdle == userTags = Undef /\ scanTags = Undef /\ mergedTagList = Undef
WalkIdle == schemaTable = Undef /\ stack = <<>> /\ called = <<>> /\ heap = Undef
ServeIdle ==
  /\ documentOrFactory = Undef /\ swaggerOptions = Undef /\ registered = {}
  /\ builtDocument = Undef /\ swaggerUiInitJS = Undef /\ swaggerUiHtml = Undef
  /\ factoryCalls = 0
  /\ sent = <<>>

----------------------------------------------------------------------------
\* Inputs of the normalizer scenario

MaxNum == 1      \* numeric bounds are drawn from 0..MaxNum
MaxDepth == 2    \* nesting depth of the generated schema literals
MaxList == 2     \* longest generated allOf/oneOf/anyOf list

Optional(key, Values) == {EmptyObject} \cup {(key :> v) : v \in Values}
Combine(A, B) == {a @@ b : a \in A, b \in B}

Numbers == {Num(n) : n \in 0..MaxNum}
Flags == {Bool(TRUE), Bool(FALSE)}

\* type lists are duplicate-free, as JSON Schema requires
TypeValues ==
  {Str("string"), Str("null"), List(<<"string">>),
   List(<<"string", "null">>), List(<<"null", "string">>)}

BoundFields ==
  Combine(Combine(Optional("exclusiveMinimum", Flags \cup Numbers),
                  Optional("minimum", Numbers)),
          Combine(Optional("exclusiveMaximum", Flags \cup Numbers),
                  Optional("maximum", Numbers)))

\* schemas without children: every combination of the scalar fields
LeafSchemas ==
  {Obj(o) : o \in Combine(Combine(Optional("type", TypeValues),
                                  Optional("nullable", Flags)),
                          BoundFields)}

RefFoo == Obj("$ref" :> "#/components/schemas/Foo")
\* a reference carrying sibling fields
RefBar == Obj(("$ref" :> "#/components/schemas/Bar")
              @@ [nullable |-> Bool(TRUE), exclusiveMinimum |-> Bool(TRUE),
                  minimum |-> Num(0), description |-> "bar"])

\* the members that fill the tail of a generated list
TailSchemas ==
  {RefFoo, Obj([type |-> Str("null")]),
   Obj([type |-> Str("string"), nullable |-> Bool(TRUE)])}

BaseSchemas ==
  TailSchemas \cup
  {RefBar, Obj(EmptyObject), Obj([nullable |-> Bool(TRUE)]),
   Obj([nullable |-> Bool(TRUE), description |-> "d", default |-> Num(0)]),
   Obj([type |-> List(<<"string", "null">>)]),
   Obj([minimum |-> Num(0), exclusiveMinimum |-> Bool(TRUE),
        nullable |-> Bool(FALSE), description |-> "d"])}

\* one more level of literal nesting around the members of X
Nest(X) ==
  UNION {{Obj([properties |-> [a |-> x]]),
          Obj([type |-> Str("array"), items |-> x, nullable |-> Bool(TRUE)]),
          Obj([oneOf |-> <<x>>, nullable |-> Bool(TRUE)]),
          Obj([not |-> x])} : x \in X}

RECURSIVE Children(_)
Children(d) == IF d = 0 THEN BaseSchemas
               ELSE BaseSchemas \cup Nest(Children(d - 1))

RECURSIVE Tails(_)
Tails(n) == IF n = 0 THEN {<<>>}
            ELSE Tails(n - 1) \cup
                 {Append(l, t) : l \in {m \in Tails(n - 1) : Len(m) = n - 1},
                                 t \in TailSchemas}

\* lists of 1..MaxList members headed by a member of X
ListsOver(X) == {<<x>> \o l : x \in X, l \in Tails(MaxList - 1)}

ParentFields ==
  {EmptyObject, [nullable |-> Bool(TRUE)],
   [nullable |-> Bool(TRUE), type |-> Str("object")],
   [nullable |-> Bool(FALSE), description |-> "d"]}

\* schemas with one schema-bearing slot filled
OneSlotSchemas(X) ==
  {Obj(p @@ c) : p \in ParentFields,
     c \in {("properties" :> ("a" :> x)) : x \in X}
        \cup {("patternProperties" :> ("^x" :> x)) : x \in X}
        \cup {("additionalProperties" :> x) : x \in X \cup Flags}
        \cup {("items" :> x) : x \in X \cup Flags}
        \cup {("not" :> x) : x \in X}
        \cup {(slot :> l) : slot \in {"allOf", "oneOf", "anyOf"},
                            l \in ListsOver(X)}}

\* schemas with two composition lists at once
ListPairs == {<<"oneOf", "anyOf">>, <<"oneOf", "allOf">>, <<"allOf", "anyOf">>}

TwoListSchemas ==
  {Obj(p @@ (s[1] :> <<x>>) @@ (s[2] :> <<y>>)) :
     p \in ParentFields, s \in ListPairs, x \in TailSchemas, y \in TailSchemas}

Schemas ==
  {Undef, RefFoo, RefBar} \cup LeafSchemas
  \cup OneSlotSchemas(Children(MaxDepth - 1)) \cup TwoListSchemas

----------------------------------------------------------------------------
\* The normalizer scenario: a node is normalized, and its result once more

InitNorm ==
  /\ pc = "input"
  /\ schema \in Schemas
  /\ once = Undef
  /\ twice = Undef
  /\ VersionIdle /\ DocIdle /\ RouteIdle /\ GroupIdle /\ WalkIdle /\ TagIdle /\ ServeIdle

Normalize ==
  /\ pc = "input"
  /\ once' = normalizeNullableSchema(schema)
  /\ pc' = "once"
  /\ UNCHANGED <<schema, twice, versionVars, docVars, routeVars, groupVars, walkVars, tagVars, serveVars>>

NormalizeAgain ==
  /\ pc = "once"
  /\ twice' = normalizeNullableSchema(once)
  /\ pc' = "twice"
  /\ UNCHANGED <<schema, once, versionVars, docVars, routeVars, groupVars, walkVars, tagVars, serveVars>>

NextNorm == Normalize \/ NormalizeAgain

SpecNorm == InitNorm /\ [][NextNorm]_vars

----------------------------------------------------------------------------
\* The version test.  A string is Text(c), c the sequence of its characters;
\* Number() yields Num(n) or NaN.

Text(c) == [k |-> "text", c |-> c]
NaN == [k |-> "nan"]

DigitValue ==
  ("0" :> 0) @@ ("1" :> 1) @@ ("2" :> 2) @@ ("3" :> 3) @@ ("4" :> 4) @@
  ("5" :> 5) @@ ("6" :> 6) @@ ("7" :> 7) @@ ("8" :> 8) @@ ("9" :> 9)

RECURSIVE Decimal(_)
Decimal(c) ==
  IF c = <<>> THEN 0
  ELSE 10 * Decimal(SubSeq(c, 1, Len(c) - 1)) + DigitValue[c[Len(c)]]

\* Number(x) on undefined and on strings of digits and other characters (no
\* whitespace, sign, exponent or radix prefix): '' is 0, digits are their
\* decimal value, anything else is NaN
Number(x) ==
  IF x = Undef THEN NaN
  ELSE IF \A i \in 1..Len(x.c) : x.c[i] \in DOMAIN DigitValue
       THEN Num(Decimal(x.c))
       ELSE NaN

\* String.prototype.split('.')
RECURSIVE Split(_)
Split(c) ==
  IF \E i \in 1..Len(c) : c[i] = "."
  THEN LET dot == CHOOSE i \in 1..Len(c) :
                    c[i] = "." /\ \A j \in 1..(i - 1) : c[j] # "."
       IN <<Text(SubSeq(c, 1, dot - 1))>> \o Split(SubSeq(c, dot + 1, Len(c)))
  ELSE <<Text(c)>>

\* a variant that asks for a minor version above 1
isOas31OrAboveStrictMinor(version) ==
  LET parts == Split(IF version = Undef THEN <<>> ELSE version.c)
      major == Number(parts[1])
      minor == Number(IF Len(parts) >= 2 THEN parts[2] ELSE Undef)
  IN IF major = NaN \/ minor = NaN THEN FALSE
     ELSE major.n > 3 \/ (major.n = 3 /\ minor.n > 1)

isOas31OrAbove(version) ==
  LET parts == Split(IF version = Undef THEN <<>> ELSE version.c)   \* (openapi || '')
      major == Number(parts[1])
      minor == Number(IF Len(parts) >= 2 THEN parts[2] ELSE Undef)
  IN IF major = NaN \/ minor = NaN THEN FALSE
     ELSE major.n > 3 \/ (major.n = 3 /\ minor.n >= 1)

MaxVersionLen == 5     \* longest generated version string

Alphabet == {"0", "1", "3", "4", ".", "a"}

RECURSIVE Strings(_)
Strings(n) ==
  IF n = 0 THEN {<<>>}
  ELSE LET shorter == Strings(n - 1)
       IN shorter \cup {Append(c, x) : c \in shorter, x \in Alphabet}

InitVersion ==
  /\ pc = "version"
  /\ openapi \in {Undef} \cup {Text(c) : c \in Strings(MaxVersionLen)}
  /\ gate = FALSE
  /\ NormIdle /\ DocIdle /\ RouteIdle /\ GroupIdle /\ WalkIdle /\ TagIdle /\ ServeIdle

CheckVersion ==
  /\ pc = "version"
  /\ gate' = isOas31OrAbove(openapi)
  /\ pc' = "gated"
  /\ UNCHANGED <<openapi, normVars, docVars, routeVars, groupVars, walkVars, tagVars, serveVars>>

NextVersion == CheckVersion

SpecVersion == InitVersion /\ [][NextVersion]_vars

\* the characters of a version string up to its first dot, and after it
Digits(c) == \A i \in 1..Len(c) : c[i] \in {"0", "1", "2", "3", "4", "5", "6", "7", "8", "9"}
HasDot(c) == \E i \in 1..Len(c) : c[i] = "."
FirstDot(c) == CHOOSE i \in 1..Len(c) : c[i] = "." /\ \A j \in 1..(i - 1) : c[j] # "."
MajorOf(c) == SubSeq(c, 1, FirstDot(c) - 1)
AfterMajor(c) == SubSeq(c, FirstDot(c) + 1, Len(c))
MinorOf(c) == IF HasDot(AfterMajor(c)) THEN MajorOf(AfterMajor(c)) ELSE AfterMajor(c)

\* C9: isOas31OrAbove is true exactly when the first two dot-separated
\* components both parse as numbers (the empty component parses as 0) and
\* major > 3 or major = 3 and minor >= 1; it is false for undefined, the empty
\* string, a non-numeric major or minor, and a string without a dot
VersionComparison ==
  pc = "gated"
  => /\ gate \in BOOLEAN
     /\ gate <=>
          /\ openapi # Undef
          /\ HasDot(openapi.c)
          /\ Digits(MajorOf(openapi.c))
          /\ Digits(MinorOf(openapi.c))
          /\ \/ Decimal(MajorOf(openapi.c)) > 3
             \/ Decimal(MajorOf(openapi.c)) = 3 /\ Decimal(MinorOf(openapi.c)) >= 1
     /\ openapi \in {Undef, Text(<<>>), Text(<<"4">>), Text(<<"3", "1">>),
                     Text(<<"a", ".", "1">>), Text(<<"4", ".", "a">>),
                     Text(<<"3", ".", "0", ".", "1">>), Text(<<"3", ".", "1", "a">>)}
          => gate = FALSE
     /\ openapi \in {Text(<<"3", ".", "1">>), Text(<<"3", ".", "1", ".", "0">>),
                     Text(<<"3", ".", "1", "0">>), Text(<<"4", ".", "0">>),
                     Text(<<"1", "0", ".", "0">>), Text(<<"4", ".">>)}
          => gate = TRUE

VersionComparisonWitness ==
  /\ pc = "gated"
  /\ openapi = Text(<<"3", ".", "1", ".", "0">>)
  /\ gate = TRUE

----------------------------------------------------------------------------
\* SwaggerTransformer.normalizePaths.  A route is an object with a `root`
\* object and the fields of its operation; lodash's filter, groupBy, keyBy,
\* mapValues and omit are modelled by what they return.

\* a variant in which the first route of a method wins
FirstIndex(keys, key) ==
  CHOOSE i \in 1..Len(keys) : keys[i] = key /\ \A j \in 1..(i - 1) : keys[j] # key

\* the last position of `key` in a sequence of keys
LastIndex(keys, key) ==
  CHOOSE i \in 1..Len(keys) : keys[i] = key /\ \A j \in (i + 1)..Len(keys) : keys[j] # key

\* filter(denormalizedDoc, (r) => r.root)
WithRoot(routes) == SelectSeq(routes, LAMBDA r : Has(r, "root") /\ r["root"] # Undef)

\* Boolean(root?.isWebhook)
IsWebhookRoute(r) == Has(r["root"], "isWebhook") /\ r["root"]["isWebhook"] = TRUE

PathKey(r) == r["root"]["path"]
\* root.webhookName || root.path
WebhookKey(r) ==
  IF Has(r["root"], "webhookName") /\ r["root"]["webhookName"] # ""
  THEN r["root"]["webhookName"] ELSE r["root"]["path"]
\* a variant that always groups webhooks by their path
WebhookKeyIsPath(r) == r["root"]["path"]
MethodKey(r) == r["root"]["method"]

OmittedRootKeys == {"method", "path", "isWebhook", "webhookName"}

\* a variant in which the fields of the route are spread last
MergedDefinitionRouteLast(route) ==
  LET fromRoute == DOMAIN route \ {"root"}
  IN [key \in fromRoute \cup (DOMAIN route["root"] \ OmittedRootKeys) |->
        IF key \in fromRoute THEN route[key] ELSE route["root"][key]]

\* { ...omit(route, 'root'), ...omit(route.root, [...]) }; sorting the keys
\* changes their order only
MergedDefinition(route) ==
  LET fromRoot == DOMAIN route["root"] \ OmittedRootKeys
  IN [key \in (DOMAIN route \ {"root"}) \cup fromRoot |->
        IF key \in fromRoot THEN route["root"][key] ELSE route[key]]

\* mapValues(keyBy(routes, method), merge): the last route of a method wins
ByMethod(routes) ==
  LET methods == [i \in 1..Len(routes) |-> MethodKey(routes[i])]
  IN [m \in {methods[i] : i \in 1..Len(routes)} |->
        MergedDefinition(routes[LastIndex(methods, m)])]

\* lines 22-38: groupBy(pathRoots, path), then ByMethod
GroupPaths(routes) ==
  [key \in {PathKey(routes[i]) : i \in 1..Len(routes)} |->
     ByMethod(SelectSeq(routes, LAMBDA r : PathKey(r) = key))]

\* lines 40-56: groupBy(webhookRoots, webhookName || path), then ByMethod
GroupWebhooks(routes) ==
  [key \in {WebhookKey(routes[i]) : i \in 1..Len(routes)} |->
     ByMethod(SelectSeq(routes, LAMBDA r : WebhookKey(r) = key))]

\* options?.openapiVersion
OpenapiVersion(opts) ==
  IF opts # Undef /\ Has(opts.o, "openapiVersion") THEN opts.o["openapiVersion"]
  ELSE Undef

\* a variant that leaves the webhook routes among the paths as well
PathRootsAll(roots, emitWebhooks) == roots

\* a variant that sets the webhook routes apart whatever the version
PathRootsNeverWebhooks(roots, emitWebhooks) ==
  SelectSeq(roots, LAMBDA r : ~IsWebhookRoute(r))

\* lines 17-20
PathRoots(roots, emitWebhooks) ==
  IF emitWebhooks THEN SelectSeq(roots, LAMBDA r : ~IsWebhookRoute(r)) ELSE roots

\* a variant that takes every route for a webhook once webhooks are emitted
WebhookRootsAll(roots, emitWebhooks) == IF emitWebhooks THEN roots ELSE <<>>

\* lines 14-16
WebhookRoots(roots, emitWebhooks) ==
  IF emitWebhooks THEN SelectSeq(roots, IsWebhookRoute) ELSE <<>>

normalizePaths(routes, opts) ==
  LET roots == WithRoot(routes)
      emitWebhooks == isOas31OrAbove(OpenapiVersion(opts))
      paths == GroupPaths(PathRoots(roots, emitWebhooks))
      webhooks == GroupWebhooks(WebhookRoots(roots, emitWebhooks))
  IN IF DOMAIN webhooks # {}
     THEN [paths |-> paths, webhooks |-> webhooks]
     ELSE [paths |-> paths]

MaxRoutes == 2     \* longest generated list of routes

V300 == Text(<<"3", ".", "0", ".", "0">>)
V310 == Text(<<"3", ".", "1", ".", "0">>)
V320 == Text(<<"3", ".", "2", ".", "0">>)
V40 == Text(<<"4", ".", "0">>)
VBad == Text(<<"a", ".", "1">>)

RouteOptions ==
  {Undef, Obj(EmptyObject)} \cup
  {Obj([openapiVersion |-> v]) : v \in {V300, V310, V320, VBad}}

\* the roots of ordinary routes and of webhook routes; a webhook may be named
\* like a path
RouteRoots ==
  {[path |-> p, method |-> m] @@ w :
     p \in {"/a", "/b"}, m \in {"get", "post"},
     w \in {EmptyObject, [isWebhook |-> FALSE], [isWebhook |-> TRUE],
            [isWebhook |-> TRUE, webhookName |-> "hook"],
            [isWebhook |-> TRUE, webhookName |-> "/a"]}}

\* roots with a summary, for routes that have fields named like fields of
\* their root
ClashingRoots ==
  {[path |-> "/a", method |-> "get", summary |-> "of the root"] @@ w :
     w \in {EmptyObject, [isWebhook |-> TRUE, webhookName |-> "hook"]}}

\* the i-th route of a list: its operationId tells the routes apart
RoutesAt(i) ==
  {[responses |-> "responses"]} \cup
  {[root |-> r @@ [operationId |-> i], responses |-> "responses"] : r \in RouteRoots} \cup
  {[root |-> r @@ [operationId |-> i], responses |-> "responses",
    summary |-> "of the route", method |-> "put", path |-> "/c"] : r \in ClashingRoots}

RECURSIVE RouteLists(_)
RouteLists(n) ==
  IF n = 0 THEN {<<>>}
  ELSE LET shorter == RouteLists(n - 1)
       IN shorter \cup {Append(l, r) : l \in {s \in shorter : Len(s) = n - 1},
                                       r \in RoutesAt(n)}

InitRoute ==
  /\ pc = "routes"
  /\ denormalizedDoc \in RouteLists(MaxRoutes)
  /\ options \in RouteOptions
  /\ normalized = Undef
  /\ NormIdle /\ VersionIdle /\ DocIdle /\ GroupIdle /\ WalkIdle /\ TagIdle /\ ServeIdle

NormalizePaths ==
  /\ pc = "routes"
  /\ normalized' = normalizePaths(denormalizedDoc, options)
  /\ pc' = "partitioned"
  /\ UNCHANGED <<denormalizedDoc, options, normVars, versionVars, docVars, groupVars, walkVars, tagVars, serveVars>>

NextRoute == NormalizePaths

SpecRoute == InitRoute /\ [][NextRoute]_vars

\* the maps of the result, empty when absent
PathsOf(result) == result["paths"]
WebhooksOf(result) ==
  IF Has(result, "webhooks") THEN result["webhooks"] ELSE EmptyObject

\* the operation at map[key][method] stems from the i-th route
EmittedAt(map, key, method, i) ==
  /\ Has(map, key)
  /\ Has(map[key], method)
  /\ map[key][method]["operationId"] = i
EmittedIn(map, i) ==
  \E key \in DOMAIN map : \E method \in DOMAIN map[key] :
    map[key][method]["operationId"] = i

Rooted(i) == Has(denormalizedDoc[i], "root")
Flagged(i) ==
  /\ Has(denormalizedDoc[i]["root"], "isWebhook")
  /\ denormalizedDoc[i]["root"]["isWebhook"] = TRUE
GroupKey(i) ==
  LET root == denormalizedDoc[i]["root"]
  IN IF Flagged(i) /\ Has(root, "webhookName") THEN root["webhookName"] ELSE root["path"]
\* no later route of the same kind has the same group key and method
LastOfItsKey(i) ==
  \A j \in (i + 1)..Len(denormalizedDoc) :
    Rooted(j) =>
      ~ /\ Flagged(j) = Flagged(i)
        /\ GroupKey(j) = GroupKey(i)
        /\ denormalizedDoc[j]["root"]["method"] = denormalizedDoc[i]["root"]["method"]

ModernOptions == {Obj([openapiVersion |-> v]) : v \in {V310, V320}}

\* C10: at version >= 3.1 the last route of each (group key, method) is
\* emitted in exactly one map: a webhook route under webhooks at its name
\* (else its path) and nowhere under paths, an ordinary route under paths at
\* its path and nowhere under webhooks
RoutePartition ==
  (pc = "partitioned" /\ options \in ModernOptions)
  => \A i \in 1..Len(denormalizedDoc) :
       Rooted(i) =>
         LET method == denormalizedDoc[i]["root"]["method"]
         IN IF Flagged(i)
            THEN /\ LastOfItsKey(i)
                      => EmittedAt(WebhooksOf(normalized), GroupKey(i), method, i)
                 /\ ~EmittedIn(PathsOf(normalized), i)
            ELSE /\ LastOfItsKey(i)
                      => EmittedAt(PathsOf(normalized), GroupKey(i), method, i)
                 /\ ~EmittedIn(WebhooksOf(normalized), i)

\* a webhook named like the path of an ordinary route with the same method
RoutePartitionWitness ==
  /\ pc = "partitioned"
  /\ options \in ModernOptions
  /\ Len(denormalizedDoc) = 2
  /\ Rooted(1) /\ Rooted(2)
  /\ ~Flagged(1) /\ Flagged(2)
  /\ GroupKey(1) = GroupKey(2)
  /\ EmittedAt(PathsOf(normalized), "/a", "get", 1)
  /\ EmittedAt(WebhooksOf(normalized), "/a", "get", 2)

\* C11 as stated: at version >= 3.1 no key is a key of both maps
PartitionKeysDisjoint ==
  (pc = "partitioned" /\ options \in ModernOptions)
  => DOMAIN PathsOf(normalized) \cap DOMAIN WebhooksOf(normalized) = {}

\* C11, amended: at version >= 3.1 no route is emitted in both maps, and
\* under a key the two maps share, `paths` holds ordinary routes only and
\* `webhooks` holds webhook routes only
PartitionRoutesDisjoint ==
  (pc = "partitioned" /\ options \in ModernOptions)
  => /\ \A i \in 1..Len(denormalizedDoc) :
          ~(EmittedIn(PathsOf(normalized), i) /\ EmittedIn(WebhooksOf(normalized), i))
     /\ \A key \in DOMAIN PathsOf(normalized) \cap DOMAIN WebhooksOf(normalized) :
          /\ \A m \in DOMAIN PathsOf(normalized)[key] :
               \E i \in 1..Len(denormalizedDoc) :
                 /\ Rooted(i) /\ ~Flagged(i)
                 /\ EmittedAt(PathsOf(normalized), key, m, i)
          /\ \A m \in DOMAIN WebhooksOf(normalized)[key] :
               \E i \in 1..Len(denormalizedDoc) :
                 /\ Rooted(i) /\ Flagged(i)
                 /\ EmittedAt(WebhooksOf(normalized), key, m, i)

\* a webhook named "/a" with another path, before an ordinary route at "/a":
\* the key "/a" is in both maps
PartitionRoutesDisjointWitness ==
  /\ pc = "partitioned"
  /\ options = Obj([openapiVersion |-> V310])
  /\ Len(denormalizedDoc) = 2
  /\ Rooted(1) /\ Rooted(2)
  /\ Flagged(1) /\ ~Flagged(2)
  /\ denormalizedDoc[1]["root"]["path"] = "/b"
  /\ EmittedAt(WebhooksOf(normalized), "/a", "post", 1)
  /\ EmittedAt(PathsOf(normalized), "/a", "get", 2)

LegacyOptions ==
  {Undef, Obj(EmptyObject)} \cup {Obj([openapiVersion |-> v]) : v \in {V300, VBad}}

\* no later route has the same path and method
LastOfItsPath(i) ==
  \A j \in (i + 1)..Len(denormalizedDoc) :
    Rooted(j) =>
      ~ /\ denormalizedDoc[j]["root"]["path"] = denormalizedDoc[i]["root"]["path"]
        /\ denormalizedDoc[j]["root"]["method"] = denormalizedDoc[i]["root"]["method"]

\* C12: below 3.1, and with no or an unparsable version, the result has no
\* `webhooks`, and every route with a root, webhook or not, has its path and
\* method under `paths`, where the last route of that path and method is
\* emitted; no webhook name is a key unless it is a path
LegacyFallback ==
  (pc = "partitioned" /\ options \in LegacyOptions)
  => /\ ~Has(normalized, "webhooks")
     /\ DOMAIN normalized = {"paths"}
     /\ \A i \in 1..Len(denormalizedDoc) :
          Rooted(i) =>
            LET root == denormalizedDoc[i]["root"]
            IN /\ Has(normalized["paths"], root["path"])
               /\ Has(normalized["paths"][root["path"]], root["method"])
               /\ LastOfItsPath(i)
                    => EmittedAt(normalized["paths"], root["path"], root["method"], i)
     /\ DOMAIN normalized["paths"]
          = {denormalizedDoc[i]["root"]["path"] :
               i \in {j \in 1..Len(denormalizedDoc) : Rooted(j)}}

\* at 3.0.0 a named webhook and an ordinary route, both under their paths
LegacyFallbackWitness ==
  /\ pc = "partitioned"
  /\ options = Obj([openapiVersion |-> V300])
  /\ Len(denormalizedDoc) = 2
  /\ Rooted(1) /\ Rooted(2)
  /\ Flagged(1) /\ ~Flagged(2)
  /\ Has(denormalizedDoc[1]["root"], "webhookName")
  /\ denormalizedDoc[1]["root"]["webhookName"] = "hook"
  /\ EmittedAt(normalized["paths"], "/a", "get", 1)
  /\ EmittedAt(normalized["paths"], "/b", "get", 2)
  /\ ~Has(normalized["paths"], "hook")

\* the map the i-th route goes to and its key there, under the options
InWebhooks(i) == options \in ModernOptions /\ Flagged(i)
KeyOf(i) == IF InWebhooks(i) THEN GroupKey(i) ELSE denormalizedDoc[i]["root"]["path"]
MethodOf(i) == denormalizedDoc[i]["root"]["method"]
MapOf(i) == IF InWebhooks(i) THEN WebhooksOf(normalized) ELSE PathsOf(normalized)

\* the routes that go to the same map, key and method as the i-th
Rivals(i) ==
  {j \in 1..Len(denormalizedDoc) :
     /\ Rooted(j)
     /\ InWebhooks(j) = InWebhooks(i)
     /\ KeyOf(j) = KeyOf(i)
     /\ MethodOf(j) = MethodOf(i)}

\* the operation of a route: its fields but `root`, and the fields of its
\* root but method, path, isWebhook and webhookName
OperationOf(route) ==
  [key \in (DOMAIN route \ {"root"})
           \cup (DOMAIN route["root"] \ {"method", "path", "isWebhook", "webhookName"}) |->
     IF key \in DOMAIN route["root"] \ {"method", "path", "isWebhook", "webhookName"}
     THEN route["root"][key] ELSE route[key]]

\* C13: the operation under a key and method is the operation of the latest
\* route of that map, key and method, whatever came before it; and every
\* operation emitted stems from such a route, so routes of other keys or
\* methods overwrite nothing
LastRouteWins ==
  pc = "partitioned"
  => /\ \A i \in 1..Len(denormalizedDoc) :
          (Rooted(i) /\ \A j \in Rivals(i) : j <= i)
            => /\ Has(MapOf(i), KeyOf(i))
               /\ Has(MapOf(i)[KeyOf(i)], MethodOf(i))
               /\ MapOf(i)[KeyOf(i)][MethodOf(i)] = OperationOf(denormalizedDoc[i])
     /\ \A key \in DOMAIN PathsOf(normalized) : \A m \in DOMAIN PathsOf(normalized)[key] :
          \E i \in 1..Len(denormalizedDoc) :
            Rooted(i) /\ ~InWebhooks(i) /\ KeyOf(i) = key /\ MethodOf(i) = m
     /\ \A key \in DOMAIN WebhooksOf(normalized) :
          \A m \in DOMAIN WebhooksOf(normalized)[key] :
            \E i \in 1..Len(denormalizedDoc) :
              Rooted(i) /\ InWebhooks(i) /\ KeyOf(i) = key /\ MethodOf(i) = m

\* two webhooks of one name and method: the second is the one emitted
LastRouteWinsWitness ==
  /\ pc = "partitioned"
  /\ options \in ModernOptions
  /\ Len(denormalizedDoc) = 2
  /\ Rooted(1) /\ Rooted(2)
  /\ Flagged(1) /\ Flagged(2)
  /\ Rivals(1) = {1, 2}
  /\ KeyOf(1) = "hook"
  /\ denormalizedDoc[1]["root"]["path"] # denormalizedDoc[2]["root"]["path"]
  /\ WebhooksOf(normalized)
       = [hook |-> (MethodOf(2) :> [operationId |-> 2, responses |-> "responses"])]
  /\ PathsOf(normalized) = EmptyObject

----------------------------------------------------------------------------
\* The container transforms.  Media types, parameters, headers, request
\* bodies, responses, callbacks, operations and path items are objects; their
\* schema and itemSchema slots hold schema nodes and `parameters` is a
\* sequence.  A field that is not set is left out of the object.

\* { ...mediaType }: `encoding` and the examples are copied as they are
transformMediaType(mediaType) ==
  [key \in DOMAIN mediaType |->
     IF key \in {"schema", "itemSchema"} /\ mediaType[key] \notin {Undef, Bool(FALSE)}
     THEN normalizeNullableSchema(mediaType[key])
     ELSE mediaType[key]]

transformContent(content) ==
  IF content = Undef THEN content
  ELSE [name \in DOMAIN content |-> transformMediaType(content[name])]

\* the body of transformParameter, which transformHeaders repeats for a
\* header: the schema and the content of the object
TransformSchemaAndContent(object) ==
  [key \in DOMAIN object |->
     CASE key = "schema" /\ object[key] \notin {Undef, Bool(FALSE)} ->
            normalizeNullableSchema(object[key])
       [] key = "content" -> transformContent(object[key])
       [] OTHER -> object[key]]

transformParameter(parameter) ==
  IF IsRef(parameter) THEN parameter ELSE TransformSchemaAndContent(parameter)

transformHeaders(headers) ==
  IF headers = Undef THEN headers
  ELSE [name \in DOMAIN headers |->
          IF IsRef(headers[name]) THEN headers[name]
          ELSE TransformSchemaAndContent(headers[name])]

transformRequestBody(requestBody) ==
  IF IsRef(requestBody) THEN requestBody
  ELSE [key \in DOMAIN requestBody |->
          IF key = "content" THEN transformContent(requestBody[key])
          ELSE requestBody[key]]

transformResponse(response) ==
  IF IsRef(response) THEN response
  ELSE [key \in DOMAIN response |->
          CASE key = "content" -> transformContent(response[key])
            [] key = "headers" -> transformHeaders(response[key])
            [] OTHER -> response[key]]

transformResponses(responses) ==
  [status \in DOMAIN responses |->
     IF responses[status] = Undef THEN Undef
     ELSE transformResponse(responses[status])]

operationKeys ==
  {"get", "put", "post", "delete", "options", "head", "patch", "trace",
   "search", "query"}

\* parameters.map(transformParameter)
TransformParameters(parameters) ==
  [i \in 1..Len(parameters) |-> transformParameter(parameters[i])]

RECURSIVE transformPathItem(_)

transformCallbacks(callbacks) ==
  [name \in DOMAIN callbacks |->
     IF IsRef(callbacks[name]) THEN callbacks[name]
     ELSE [path \in DOMAIN callbacks[name] |->
             transformPathItem(callbacks[name][path])]]

transformOperation(operation) ==
  [key \in DOMAIN operation |->
     CASE key = "parameters" -> TransformParameters(operation[key])
       [] key = "requestBody" -> transformRequestBody(operation[key])
       [] key = "responses" -> transformResponses(operation[key])
       [] key = "callbacks" -> transformCallbacks(operation[key])
       [] OTHER -> operation[key]]

transformPathItem(pathItem) ==
  [key \in DOMAIN pathItem |->
     CASE key = "parameters" -> TransformParameters(pathItem[key])
       [] key \in operationKeys -> transformOperation(pathItem[key])
       [] OTHER -> pathItem[key]]

transformPathItems(paths) ==
  IF paths = Undef THEN paths
  ELSE [path \in DOMAIN paths |-> transformPathItem(paths[path])]

\* lines 385-425: the component tables that are rewritten
TransformComponents(components) ==
  [category \in DOMAIN components |->
     CASE category = "schemas" ->
            [name \in DOMAIN components[category] |->
               normalizeNullableSchema(components[category][name])]
       [] category = "parameters" ->
            [name \in DOMAIN components[category] |->
               transformParameter(components[category][name])]
       [] category = "requestBodies" ->
            [name \in DOMAIN components[category] |->
               transformRequestBody(components[category][name])]
       [] category = "responses" ->
            [name \in DOMAIN components[category] |->
               transformResponse(components[category][name])]
       [] category = "headers" -> transformHeaders(components[category])
       [] category = "callbacks" -> transformCallbacks(components[category])
       [] OTHER -> components[category]]

\* the document after the in-place rewrite of its components, paths and
\* webhooks
normalizeNullableForOas31(doc) ==
  [key \in DOMAIN doc \cup {"paths"} |->
     CASE key = "components" -> TransformComponents(doc[key])
       [] key = "paths" ->
            IF Has(doc, "paths") THEN transformPathItems(doc[key]) ELSE EmptyObject
       [] key = "webhooks" -> transformPathItems(doc[key])
       [] OTHER -> doc[key]]

----------------------------------------------------------------------------
\* SwaggerModule.createDocument.  A document is an object; `openapi` is a
\* text, `tags` and `x-tagGroups` are lists, a tag is an object of strings.

Get(o, key) == IF Has(o, key) THEN o[key] ELSE Undef

\* assignTwoLevelsDeep({}, first, second), either source possibly undefined:
\* the tables are merged table by table, the later source winning an entry
assignTwoLevelsDeep(first, second) ==
  LET a == IF first = Undef THEN EmptyObject ELSE first
      b == IF second = Undef THEN EmptyObject ELSE second
  IN [category \in DOMAIN a \cup DOMAIN b |->
        [name \in (IF Has(a, category) THEN DOMAIN a[category] ELSE {})
                  \cup (IF Has(b, category) THEN DOMAIN b[category] ELSE {}) |->
           IF Has(b, category) /\ Has(b[category], name)
           THEN b[category][name] ELSE a[category][name]]]

mergeWebhooks(configWebhooks, scannedWebhooks) ==
  IF configWebhooks = Undef /\ scannedWebhooks = Undef THEN Undef
  ELSE assignTwoLevelsDeep(configWebhooks, scannedWebhooks)

\* a variant that takes an empty name for a name
NamelessIfAbsent(tag) == ~Has(tag, "name")

\* !tag?.name
Nameless(tag) == ~Has(tag, "name") \/ tag["name"] = ""

\* the position of a name in the insertion-ordered map, 0 when it is new
IndexOfName(byName, name) ==
  IF \E i \in 1..Len(byName) : byName[i]["name"] = name
  THEN CHOOSE i \in 1..Len(byName) : byName[i]["name"] = name
  ELSE 0

\* a variant in which a name set again moves to the end
SetByNameMovingToEnd(byName, tag) ==
  LET IsOther(entry) == entry["name"] # tag["name"]
  IN Append(SelectSeq(byName, IsOther), tag)

\* Map.prototype.set: a known name keeps its position
SetByName(byName, tag) ==
  IF IndexOfName(byName, tag["name"]) = 0 THEN Append(byName, tag)
  ELSE [byName EXCEPT ![IndexOfName(byName, tag["name"])] = tag]

\* a ?? b ?? ... : candidates are <<object, field>> pairs
AnySet(candidates) ==
  \E i \in 1..Len(candidates) : Has(candidates[i][1], candidates[i][2])
FirstSet(candidates) ==
  LET i == CHOOSE j \in 1..Len(candidates) :
             /\ Has(candidates[j][1], candidates[j][2])
             /\ \A k \in 1..(j - 1) : ~Has(candidates[k][1], candidates[k][2])
  IN candidates[i][1][candidates[i][2]]

\* a variant in which the scanned tag comes first for the plain fields
TagFieldSourcesScannedFirst(existing, tag, field) ==
  CASE field = "summary" ->
         <<<<existing, "summary">>, <<existing, "x-displayName">>,
           <<tag, "summary">>, <<tag, "x-displayName">>>>
    [] field = "x-displayName" ->
         <<<<existing, "x-displayName">>, <<existing, "summary">>,
           <<tag, "x-displayName">>, <<tag, "summary">>>>
    [] OTHER -> <<<<tag, field>>, <<existing, field>>>>

\* lines 471-491: where each field of a merged tag is looked for, in order
TagFieldSources(existing, tag, field) ==
  CASE field = "summary" ->
         <<<<existing, "summary">>, <<existing, "x-displayName">>,
           <<tag, "summary">>, <<tag, "x-displayName">>>>
    [] field = "x-displayName" ->
         <<<<existing, "x-displayName">>, <<existing, "summary">>,
           <<tag, "x-displayName">>, <<tag, "summary">>>>
    [] OTHER -> <<<<existing, field>>, <<tag, field>>>>

MergedTagFields ==
  {"summary", "x-displayName", "description", "externalDocs", "parent", "kind"}

\* lines 466-493: a scanned tag merged into the entry of its name
MergeTag(existing, tag) ==
  [key \in {"name"} \cup
           {f \in MergedTagFields : AnySet(TagFieldSources(existing, tag, f))} |->
     IF key = "name" THEN tag["name"]
     ELSE FirstSet(TagFieldSources(existing, tag, key))]

RECURSIVE SetConfigTags(_, _)
SetConfigTags(byName, tags) ==
  IF tags = <<>> THEN byName
  ELSE SetConfigTags(IF Nameless(Head(tags)) THEN byName
                     ELSE SetByName(byName, Head(tags)),
                     Tail(tags))

RECURSIVE MergeScannedTags(_, _)
MergeScannedTags(byName, tags) ==
  IF tags = <<>> THEN byName
  ELSE MergeScannedTags(
         IF Nameless(Head(tags)) THEN byName
         ELSE SetByName(byName,
                MergeTag(IF IndexOfName(byName, Head(tags)["name"]) = 0
                         THEN [name |-> Head(tags)["name"]]
                         ELSE byName[IndexOfName(byName, Head(tags)["name"])],
                         Head(tags))),
         Tail(tags))

ListOrEmpty(list) == IF list = Undef THEN <<>> ELSE list.l

mergeTags(configTags, scannedTags) ==
  LET merged == MergeScannedTags(SetConfigTags(<<>>, ListOrEmpty(configTags)),
                                 ListOrEmpty(scannedTags))
  IN IF Len(merged) > 0 THEN List(merged) ELSE Undef

\* the members of l at the positions I, in order
AtPositions(l, I) ==
  [n \in 1..Cardinality(I) |->
     l[CHOOSE i \in I : Cardinality({j \in I : j <= i}) = n]]

\* the members of l in order of first occurrence
FirstOccurrences(l) ==
  AtPositions(l, {i \in 1..Len(l) : \A j \in 1..(i - 1) : l[j] # l[i]})

\* !parent
HasParent(tag) == Has(tag, "parent") /\ tag["parent"] # ""

\* lines 540-558: the group of a parent: the tag of that name first, if there
\* is one, then its children in order
TagGroup(tags, parent) ==
  LET children == [i \in 1..Len(tags) |-> Get(tags[i], "name")]
      own == IF \E i \in 1..Len(tags) : Has(tags[i], "name") /\ tags[i]["name"] = parent
             THEN <<parent>> ELSE <<>>
  IN [name |-> parent,
      tags |-> FirstOccurrences(
                 own \o AtPositions(children,
                          {i \in 1..Len(tags) :
                             HasParent(tags[i]) /\ tags[i]["parent"] = parent}))]

buildXTagGroups(tags) ==
  IF tags = Undef \/ Len(tags.l) = 0 THEN Undef
  ELSE LET parents ==
             FirstOccurrences(
               AtPositions([i \in 1..Len(tags.l) |-> Get(tags.l[i], "parent")],
                           {i \in 1..Len(tags.l) : HasParent(tags.l[i])}))
       IN IF Len(parents) = 0 THEN Undef
          ELSE List([g \in 1..Len(parents) |-> TagGroup(tags.l, parents[g])])

\* lines 581-588: defaults, then the configuration, then the scanned document
\* with the merged components, then the merged tags and webhooks
\* a variant that applies the configuration's components last
MergedComponentsConfigLast(cfg, scan) ==
  assignTwoLevelsDeep(Get(scan, "components"), Get(cfg, "components"))

\* lines 569-573: the configuration's components first, the scanned ones second
MergedComponents(cfg, scan) ==
  assignTwoLevelsDeep(Get(cfg, "components"), Get(scan, "components"))

MergedDocument(cfg, scan) ==
  LET mergedTags == mergeTags(Get(cfg, "tags"), Get(scan, "tags"))
      mergedWebhooks == mergeWebhooks(Get(cfg, "webhooks"), Get(scan, "webhooks"))
  IN [key \in {"openapi", "paths", "components"} \cup DOMAIN cfg \cup DOMAIN scan
              \cup (IF mergedTags = Undef THEN {} ELSE {"tags"})
              \cup (IF mergedWebhooks = Undef THEN {} ELSE {"webhooks"}) |->
        CASE key = "tags" /\ mergedTags # Undef -> mergedTags
          [] key = "webhooks" /\ mergedWebhooks # Undef -> mergedWebhooks
          [] key = "components" ->
               MergedComponents(cfg, scan)
          [] key \in DOMAIN scan -> scan[key]
          [] key \in DOMAIN cfg -> cfg[key]
          [] key = "openapi" -> Text(<<"3", ".", "0", ".", "0">>)
          [] OTHER -> EmptyObject]

\* a variant without the version gate
NormalizedForVersionAlways(doc) == normalizeNullableForOas31(doc)

\* lines 590-592
NormalizedForVersion(doc) ==
  IF isOas31OrAbove(Get(doc, "openapi")) THEN normalizeNullableForOas31(doc)
  ELSE doc

\* a variant that derives the groups over an explicit value
WithXTagGroupsDerivedFirst(doc) ==
  IF buildXTagGroups(Get(doc, "tags")) = Undef THEN doc
  ELSE Put(doc, "x-tagGroups", buildXTagGroups(Get(doc, "tags")))

\* lines 595-600
WithXTagGroups(doc) ==
  IF Has(doc, "x-tagGroups") \/ buildXTagGroups(Get(doc, "tags")) = Undef THEN doc
  ELSE Put(doc, "x-tagGroups", buildXTagGroups(Get(doc, "tags")))

createDocument(cfg, scan) ==
  WithXTagGroups(NormalizedForVersion(MergedDocument(cfg, scan)))

----------------------------------------------------------------------------
\* createDocument in memory.  The configuration, the scan and the document
\* are objects at addresses; `components` holds a pointer to the object of the
\* tables, and each table of it a pointer to the map of its items.  What is
\* not an object of these three levels is held as a value.

RootAddress(root) == <<root>>
ComponentsAddress(root) == <<root, "components">>
CategoryAddress(root, category) == <<root, "components", category>>
\* the maps that assignTwoLevelsDeep and the transforms create
TransformedAddress(category) == <<"created", "transformed", category>>
DocumentAddress == RootAddress("document")

ObjectInMemory(root, object) ==
  (RootAddress(root) :>
     [key \in DOMAIN object |->
        IF key = "components" THEN Ptr(ComponentsAddress(root)) ELSE object[key]])
  @@ (IF Has(object, "components")
      THEN (ComponentsAddress(root) :>
              [category \in DOMAIN object["components"] |->
                 Ptr(CategoryAddress(root, category))])
           @@ [address \in {CategoryAddress(root, category) :
                              category \in DOMAIN object["components"]} |->
                 object["components"][address[3]]]
      ELSE EmptyObject)

InitialMemory(cfg, scan) ==
  ObjectInMemory("config", cfg) @@ ObjectInMemory("scanned", scan)

\* { ...dest[key], ...value }
AssignedCategory(m, dest, source, category) ==
  LET old == IF Has(m[dest], category) THEN m[m[dest][category].to] ELSE EmptyObject
      new == m[m[source.to][category].to]
  IN [name \in DOMAIN old \cup DOMAIN new |->
        IF name \in DOMAIN new THEN new[name] ELSE old[name]]

\* one source of assignTwoLevelsDeep: every table of it becomes a new map of
\* the destination
AssignSource(m, dest, source) ==
  IF source = Undef THEN m
  ELSE Store(m,
         (dest :> [category \in DOMAIN m[dest] \cup DOMAIN m[source.to] |->
                     IF category \in DOMAIN m[source.to]
                     THEN Ptr(CategoryAddress("created", category))
                     ELSE m[dest][category]])
         @@ [address \in {CategoryAddress("created", category) :
                            category \in DOMAIN m[source.to]} |->
               AssignedCategory(m, dest, source, address[3])])

assignTwoLevelsDeepInMemory(m, dest, first, second) ==
  AssignSource(AssignSource(m, dest, first), dest, second)

\* a variant that merges into the configuration's components
ComponentsDestinationIsConfig(m) ==
  IF Has(m[RootAddress("config")], "components") THEN m
  ELSE Store(m, ComponentsAddress("config") :> EmptyObject)

\* line 570: the destination is a new object, {}
ComponentsDestination(m) == Store(m, ComponentsAddress("created") :> EmptyObject)

\* the address of the destination: the components object that is not the
\* scan's
DestinationIn(m) ==
  IF ComponentsAddress("created") \in DOMAIN m THEN ComponentsAddress("created")
  ELSE ComponentsAddress("config")

\* lines 569-573: document.components = assignTwoLevelsDeep({}, ...)
ComponentsInMemory(m) ==
  LET allocated == ComponentsDestination(m)
      merged == assignTwoLevelsDeepInMemory(
                  allocated, DestinationIn(allocated),
                  Get(m[RootAddress("config")], "components"),
                  Get(m[RootAddress("scanned")], "components"))
  IN Store(merged,
           RootAddress("scanned") :>
             Put(merged[RootAddress("scanned")], "components",
                 Ptr(DestinationIn(allocated))))

\* lines 575-588: the merged document is a new object of the fields of the
\* configuration and of the scan
MergedInMemory(m) ==
  LET cfg == m[RootAddress("config")]
      scan == m[RootAddress("scanned")]
      mergedTags == mergeTags(Get(cfg, "tags"), Get(scan, "tags"))
      mergedWebhooks == mergeWebhooks(Get(cfg, "webhooks"), Get(scan, "webhooks"))
  IN Store(m,
       DocumentAddress :>
         [key \in {"openapi", "paths"} \cup DOMAIN cfg \cup DOMAIN scan
                  \cup (IF mergedTags = Undef THEN {} ELSE {"tags"})
                  \cup (IF mergedWebhooks = Undef THEN {} ELSE {"webhooks"}) |->
            CASE key = "tags" /\ mergedTags # Undef -> mergedTags
              [] key = "webhooks" /\ mergedWebhooks # Undef -> mergedWebhooks
              [] key \in DOMAIN scan -> scan[key]
              [] key \in DOMAIN cfg -> cfg[key]
              [] key = "openapi" -> Text(<<"3", ".", "0", ".", "0">>)
              [] OTHER -> EmptyObject])

\* lines 384-431: the items of schemas, parameters, requestBodies and responses
\* are assigned in their maps; headers and callbacks get new maps; paths and
\* webhooks are assigned in the document
NormalizedInMemory(m) ==
  LET components == m[DocumentAddress]["components"].to
      rewritten == {"schemas", "parameters", "requestBodies", "responses"}
                   \cap DOMAIN m[components]
      replaced == {"headers", "callbacks"} \cap DOMAIN m[components]
  IN Store(m,
       [address \in {m[components][category].to : category \in rewritten} |->
          TransformComponents(
            [category \in {c \in rewritten : m[components][c].to = address} |->
               m[address]])
            [CHOOSE c \in rewritten : m[components][c].to = address]]
       @@ [address \in {TransformedAddress(category) : category \in replaced} |->
             TransformComponents(address[3] :> m[m[components][address[3]].to])[address[3]]]
       @@ (components :>
             [category \in DOMAIN m[components] |->
                IF category \in replaced THEN Ptr(TransformedAddress(category))
                ELSE m[components][category]])
       @@ (DocumentAddress :>
             [key \in DOMAIN m[DocumentAddress] \cup {"paths"} |->
                CASE key = "paths" ->
                       IF Has(m[DocumentAddress], "paths")
                       THEN transformPathItems(m[DocumentAddress][key])
                       ELSE EmptyObject
                  [] key = "webhooks" -> transformPathItems(m[DocumentAddress][key])
                  [] OTHER -> m[DocumentAddress][key]]))

\* lines 590-600
FinishedInMemory(m) ==
  LET gated == IF isOas31OrAbove(Get(m[DocumentAddress], "openapi"))
               THEN NormalizedInMemory(m) ELSE m
  IN Store(gated, DocumentAddress :> WithXTagGroups(gated[DocumentAddress]))

createDocumentInMemory(m) == FinishedInMemory(MergedInMemory(ComponentsInMemory(m)))

\* the object at an address as a value
ObjectAt(m, address) ==
  [key \in DOMAIN m[address] |->
     IF key = "components"
     THEN [category \in DOMAIN m[m[address][key].to] |->
             m[m[m[address][key].to][category].to]]
     ELSE m[address][key]]

----------------------------------------------------------------------------
\* SwaggerScanner.exploreTagGroups: the tags of the scan, from the options
\* of the @ApiTag decorators of the controllers in order

\* lines 195-196: the two display fields stand in for each other
GroupFieldSources(group, field) ==
  CASE field = "summary" -> <<<<group, "summary">>, <<group, "x-displayName">>>>
    [] field = "x-displayName" -> <<<<group, "x-displayName">>, <<group, "summary">>>>
    [] OTHER -> <<<<group, field>>>>

\* lines 198-214: { ...previous, ...the fields the group sets }
ExploredTag(previous, group) ==
  [key \in DOMAIN previous \cup
           {f \in MergedTagFields : AnySet(GroupFieldSources(group, f))} |->
     IF key \in MergedTagFields /\ AnySet(GroupFieldSources(group, key))
     THEN FirstSet(GroupFieldSources(group, key))
     ELSE previous[key]]

RECURSIVE ExploreGroups(_, _)
ExploreGroups(byName, groups) ==
  IF groups = <<>> THEN byName
  ELSE ExploreGroups(
         IF Nameless(Head(groups)) THEN byName
         ELSE SetByName(byName,
                ExploredTag(IF IndexOfName(byName, Head(groups)["name"]) = 0
                            THEN [name |-> Head(groups)["name"]]
                            ELSE byName[IndexOfName(byName, Head(groups)["name"])],
                            Head(groups))),
         Tail(groups))

exploreTagGroups(groups) == ExploreGroups(<<>>, groups)

----------------------------------------------------------------------------
\* Inputs of the document scenario: a configuration and a scanned document
\* that between them fill every schema-bearing slot of the interfaces, with
\* reference objects next to the inline ones

Slots ==
  {"cfg.schema", "cfg.shared", "cfg.parameter", "cfg.parameterContent",
   "cfg.body", "cfg.bodyEncodingHeader", "cfg.responseItem", "cfg.responseHeader",
   "cfg.header", "cfg.headerContent", "cfg.callback", "cfg.webhookBody",
   "cfg.webhookResponse", "shared", "dto", "path.parameter", "op.parameter",
   "op.body", "op.response", "op.responseItem", "op.responseHeader",
   "op.callback", "query.response"}

CleanSchema == Obj([type |-> Str("string")])
LegacySchema == Obj([type |-> Str("string"), nullable |-> Bool(TRUE)])

\* the schemas tried in the slots
ProbeSchemas == BaseSchemas \cup Nest({RefBar, LegacySchema})

\* one probe in one slot, or the same probe in every slot
SlotFillings ==
  {[x \in Slots |-> IF x = p THEN s ELSE CleanSchema] : p \in Slots, s \in ProbeSchemas}
  \cup {[x \in Slots |-> s] : s \in ProbeSchemas}

\* reference objects with sibling fields that would need normalization
RefOf(target) ==
  ("$ref" :> target) @@ [description |-> "ref", schema |-> LegacySchema]
RefCallback == ("$ref" :> "#/components/callbacks/cb")

Json(node) == ("application/json" :> [schema |-> node])
Stream(node) == ("application/jsonl" :> [itemSchema |-> node])

BodyOf(node) == [description |-> "body", content |-> Json(node)]
ResponseOf(node) == [description |-> "ok", content |-> Json(node)]
PostItem(operation) == [post |-> operation]

ConfigComponents(f) ==
  [schemas |-> [Cfg |-> f["cfg.schema"], Shared |-> f["cfg.shared"],
                Bar |-> LegacySchema, Alias |-> RefBar],
   parameters |->
     [P |-> [name |-> "p", in |-> "query", schema |-> f["cfg.parameter"]],
      Q |-> [name |-> "q", in |-> "query", content |-> Json(f["cfg.parameterContent"])],
      R |-> RefOf("#/components/parameters/P")],
   requestBodies |->
     [B |-> [content |->
               ("multipart/form-data" :>
                  [schema |-> f["cfg.body"],
                   encoding |->
                     [file |-> [headers |->
                        [X |-> [schema |-> f["cfg.bodyEncodingHeader"]]]]]])],
      R |-> RefOf("#/components/requestBodies/B")],
   responses |->
     [Ok |-> [description |-> "ok", content |-> Stream(f["cfg.responseItem"]),
              headers |-> [X |-> [schema |-> f["cfg.responseHeader"]],
                           R |-> RefOf("#/components/headers/H")]],
      R |-> RefOf("#/components/responses/Ok")],
   headers |->
     [H |-> [schema |-> f["cfg.header"]],
      C |-> [description |-> "header", content |-> Json(f["cfg.headerContent"])],
      R |-> RefOf("#/components/headers/H")],
   callbacks |->
     [cb |-> ("{$request.body#/url}" :>
                PostItem([requestBody |-> BodyOf(f["cfg.callback"])])),
      R |-> RefCallback],
   securitySchemes |-> [bearer |-> [type |-> "http"]]]

ConfigWebhooks(f) ==
  [hook |-> PostItem([requestBody |-> BodyOf(f["cfg.webhookBody"]),
                      responses |-> ("200" :> ResponseOf(f["cfg.webhookResponse"]))])]

ScannedPaths(f) ==
  ("/a" :>
     [summary |-> "a",
      parameters |-> <<[name |-> "id", in |-> "path", schema |-> f["path.parameter"]],
                       RefOf("#/components/parameters/P")>>,
      get |->
        [operationId |-> "get",
         parameters |-> <<[name |-> "x", in |-> "query", schema |-> f["op.parameter"]]>>,
         requestBody |-> BodyOf(f["op.body"]),
         responses |->
           ("200" :> [description |-> "ok",
                      content |-> Json(f["op.response"]) @@ Stream(f["op.responseItem"]),
                      headers |-> [X |-> [schema |-> f["op.responseHeader"]]]])
           @@ ("404" :> RefOf("#/components/responses/Ok")),
         callbacks |->
           [cb |-> ("{$request.body#/url}" :>
                      PostItem([requestBody |-> BodyOf(f["op.callback"])])),
            r |-> RefCallback]],
      query |->
        [operationId |-> "query",
         responses |-> ("200" :> ResponseOf(f["query.response"]))]])
  @@ ("/r" :>
     PostItem([operationId |-> "post",
               requestBody |-> RefOf("#/components/requestBodies/B"),
               responses |-> ("200" :> [description |-> "ok"])]))

V3 == Text(<<"3">>)
VEmpty == Text(<<>>)
V4a == Text(<<"4", ".", "a">>)

\* the versions a configuration may carry; Undef: none
ConfigVersions == {Undef, V300, V310, V320, V40, VBad, V3, VEmpty, V4a}

\* the tags of a configuration and the @ApiTag options of the controllers:
\* none, or tags on both sides that share a name, with and without explicit
\* groups
TagInputs ==
  {[cfg |-> EmptyObject, groups |-> <<>>],
   [cfg |-> [tags |-> List(<<[name |-> "cats", description |-> "config"],
                             [description |-> "nameless"]>>)],
    groups |-> <<[name |-> "dogs", parent |-> "pets"],
                 [name |-> "cats", summary |-> "Cats",
                  description |-> "scan", parent |-> "pets"]>>],
   [cfg |-> [tags |-> List(<<[name |-> "cats", parent |-> "pets"]>>)]
            @@ ("x-tagGroups" :> List(<<[name |-> "all", tags |-> <<"cats">>]>>)),
    groups |-> <<>>]}

Configs(f, t) ==
  {t.cfg @@ [info |-> "info", components |-> ConfigComponents(f),
             webhooks |-> ConfigWebhooks(f)]
         @@ (IF v = Undef THEN EmptyObject ELSE [openapi |-> v]) :
     v \in ConfigVersions}

\* lines 108-110: the tags of the scan, if there are any
ScannedTags(groups) ==
  IF Len(exploreTagGroups(groups)) > 0
  THEN [tags |-> List(exploreTagGroups(groups))] ELSE EmptyObject

\* what the scanner returns: paths, components.schemas and, if any, tags
ScannedDocument(f, t) ==
  ScannedTags(t.groups)
  @@ [paths |-> ScannedPaths(f),
      components |-> [schemas |-> [Shared |-> f["shared"], Dto |-> f["dto"]]]]

MaxTags == 2     \* longest generated list of configuration tags

\* a display field: not set, or one of two values
DisplayFields ==
  Combine(Optional("summary", {"x", "y"}), Optional("x-displayName", {"x", "y"}))

\* tag A on either side with every combination of the two display fields, a
\* configuration or controllers without tags, and an unrelated tag B
MirrorInputs ==
  {[cfg |-> c, groups |-> g] :
     c \in {EmptyObject}
           \cup {[tags |-> List(<<[name |-> "A"] @@ d>>)] : d \in DisplayFields},
     g \in {<<>>, <<[name |-> "B", summary |-> "x"]>>}
           \cup {<<[name |-> "A"] @@ d>> : d \in DisplayFields}}

\* the fields a scanned tag may fill in
FillFields(value) ==
  {[key \in keys |-> value] :
     keys \in SUBSET {"description", "externalDocs", "parent", "kind"}}

\* tag A declared on both sides, each side setting any of the four fields
PrecedenceInputs ==
  {[cfg |-> [tags |-> List(<<[name |-> "A"] @@ u>>)],
    groups |-> <<[name |-> "A"] @@ g>>] :
     u \in FillFields("user"), g \in FillFields("scan")}

\* tags with and without a parent, one of them its own parent
GroupedTags ==
  UNION {{[name |-> n] @@ p :
            p \in {EmptyObject} \cup {[parent |-> x] : x \in {"P", "Q", n}}} :
           n \in {"P", "C1", "C2"}}

RECURSIVE TagLists(_)
TagLists(n) ==
  IF n = 0 THEN {<<>>}
  ELSE LET shorter == TagLists(n - 1)
       IN shorter \cup {Append(l, t) : l \in {x \in shorter : Len(x) = n - 1},
                                       t \in GroupedTags}

\* a configuration whose tags, tag groups and webhooks are each missing,
\* empty or filled
PresenceInputs ==
  {[cfg |-> t @@ g @@ w, groups |-> d] :
     t \in {EmptyObject} \cup {[tags |-> List(l)] : l \in TagLists(MaxTags)},
     g \in {EmptyObject} \cup {("x-tagGroups" :> List(l)) :
              l \in {<<>>, <<[name |-> "all", tags |-> <<"P">>]>>}},
     w \in {EmptyObject, [webhooks |-> EmptyObject],
            [webhooks |-> ConfigWebhooks([x \in Slots |-> CleanSchema])]},
     d \in {<<>>, <<[name |-> "C1", parent |-> "P"]>>}}

\* configurations without components, for the tags
TagConfigs(t) ==
  {t.cfg @@ [info |-> "info", openapi |-> v] : v \in {V310, V320}}

\* a scan of one tagged operation and no schemas
TagScan(t) ==
  ScannedTags(t.groups)
  @@ [paths |-> ("/cats" :> [get |-> [operationId |-> "list",
                                     responses |-> ("200" :> [description |-> "ok"])]]),
      components |-> [schemas |-> EmptyObject]]

\* controllers: the names given to @ApiTags and the options given to @ApiTag
Controllers ==
  {<<[path |-> "/a", apiTags |-> a, groups |-> g],
     [path |-> "/b", apiTags |-> b, groups |-> h]>> :
     a \in {<<>>, <<"TagA">>},
     g \in {<<>>, <<[name |-> "TagA", description |-> "A operations"]>>},
     b \in {<<>>, <<"TagA">>, <<"TagB">>},
     h \in {<<>>, <<[name |-> "TagB", description |-> "B operations"]>>}}

\* the configuration's tags: none, the empty list, or the user's own TagA
ControllerInputs ==
  {[cfg |-> t, controllers |-> c] :
     t \in {EmptyObject, [tags |-> List(<<>>)],
            [tags |-> List(<<[name |-> "TagA", description |-> "user"]>>)]},
     c \in Controllers}

ControllerConfigs(t) ==
  {t.cfg @@ [info |-> "info", openapi |-> v] : v \in {V300, V310}}

\* api-tag-group.decorator lines 40-41: @ApiTag tags the operations as
\* @ApiTags(options.name) does
OperationTags(controller) ==
  controller.apiTags
  \o [i \in 1..Len(controller.groups) |-> controller.groups[i]["name"]]

ControllerOperation(controller) ==
  [operationId |-> "get", responses |-> ("200" :> [description |-> "ok"])]
  @@ (IF Len(OperationTags(controller)) > 0
      THEN [tags |-> List(OperationTags(controller))] ELSE EmptyObject)

\* lines 62-110: the tags of the @ApiTag options of the controllers in order,
\* and one operation for each controller
ControllerScan(t) ==
  ScannedTags(t.controllers[1].groups \o t.controllers[2].groups)
  @@ [paths |-> [p \in {t.controllers[1].path, t.controllers[2].path} |->
                  [get |-> ControllerOperation(
                             IF p = t.controllers[1].path THEN t.controllers[1]
                             ELSE t.controllers[2])]],
      components |-> [schemas |-> EmptyObject]]

----------------------------------------------------------------------------
\* The document scenario: createDocument on a configuration and a scan

InitDoc ==
  /\ pc = "config"
  /\ \/ \E f \in SlotFillings, t \in TagInputs :
          /\ config \in Configs(f, t)
          /\ scanned = ScannedDocument(f, t)
     \/ \E t \in MirrorInputs \cup PrecedenceInputs \cup PresenceInputs :
          /\ config \in TagConfigs(t)
          /\ scanned = TagScan(t)
     \/ \E t \in ControllerInputs :
          /\ config \in ControllerConfigs(t)
          /\ scanned = ControllerScan(t)
  /\ mergedDocument = Undef
  /\ document = Undef
  /\ memory = InitialMemory(config, scanned)
  /\ NormIdle /\ VersionIdle /\ RouteIdle /\ GroupIdle /\ WalkIdle /\ TagIdle /\ ServeIdle

\* mergedDocument keeps the document as merged, before the version gate
CreateDocument ==
  /\ pc = "config"
  /\ mergedDocument' = MergedDocument(config, scanned)
  /\ document' = createDocument(config, scanned)
  /\ memory' = createDocumentInMemory(memory)
  /\ pc' = "created"
  /\ UNCHANGED <<config, scanned, normVars, versionVars, routeVars, groupVars, walkVars, tagVars, serveVars>>

NextDoc == CreateDocument

SpecDoc == InitDoc /\ [][NextDoc]_vars

----------------------------------------------------------------------------
\* buildXTagGroups of utils/build-x-tag-groups.util, which takes the names of
\* the operation tags as well.  An operation tag name is a string with or
\* without white space around its core, or not a string at all (Undef).

Plain(core) == [k |-> "string", padded |-> FALSE, core |-> core]
Padded(core) == [k |-> "string", padded |-> TRUE, core |-> core]

\* lines 85-90: the strings, trimmed, the empty ones dropped, each name once
OperationNames(names) ==
  IF names = Undef THEN <<>>
  ELSE FirstOccurrences(
         AtPositions([i \in 1..Len(names.l) |-> names.l[i].core],
                     {i \in 1..Len(names.l) :
                        names.l[i].k = "string" /\ names.l[i].core # ""}))

Members(l) == {l[i] : i \in 1..Len(l)}

\* lines 100-125: the parents in the order they are first seen
ParentGroups(tags) ==
  FirstOccurrences(AtPositions([i \in 1..Len(tags) |-> Get(tags[i], "parent")],
                               {i \in 1..Len(tags) : HasParent(tags[i])}))

\* childToParent: the names of the tags that have a parent
ChildNames(tags) == {tags[i]["name"] : i \in {j \in 1..Len(tags) : HasParent(tags[j])}}

\* a variant that gives a group to every operation tag that is not a group
StandaloneGroupsOfChildren(tags, opNames) ==
  AtPositions(opNames,
              {i \in 1..Len(opNames) : opNames[i] \notin Members(ParentGroups(tags))})

\* lines 128-136: the operation tags that are no child and no group yet
StandaloneGroups(tags, opNames) ==
  AtPositions(opNames,
              {i \in 1..Len(opNames) :
                 /\ opNames[i] \notin ChildNames(tags)
                 /\ opNames[i] \notin Members(ParentGroups(tags))})

\* a variant that lists the name itself only when a tag bears it
GroupEntryOwnNameIfTag(tags, opNames, name) ==
  [name |-> name,
   tags |-> FirstOccurrences(
              (IF \E i \in 1..Len(tags) : Has(tags[i], "name") /\ tags[i]["name"] = name
               THEN <<name>> ELSE <<>>)
              \o AtPositions([i \in 1..Len(tags) |-> Get(tags[i], "name")],
                             {i \in 1..Len(tags) :
                                HasParent(tags[i]) /\ tags[i]["parent"] = name}))]

\* a variant that lists the children only
GroupEntryChildrenOnly(tags, opNames, name) ==
  [name |-> name,
   tags |-> FirstOccurrences(
              AtPositions([i \in 1..Len(tags) |-> Get(tags[i], "name")],
                          {i \in 1..Len(tags) :
                             HasParent(tags[i]) /\ tags[i]["parent"] = name}))]

\* lines 144-163: the name itself first when it is a tag or an operation tag,
\* then the children in order
GroupEntry(tags, opNames, name) ==
  [name |-> name,
   tags |-> FirstOccurrences(
              (IF \/ \E i \in 1..Len(tags) : Has(tags[i], "name") /\ tags[i]["name"] = name
                  \/ name \in Members(opNames)
               THEN <<name>> ELSE <<>>)
              \o AtPositions([i \in 1..Len(tags) |-> Get(tags[i], "name")],
                             {i \in 1..Len(tags) :
                                HasParent(tags[i]) /\ tags[i]["parent"] = name}))]

\* lines 81-164
buildXTagGroupsUtil(tagList, names) ==
  LET tags == ListOrEmpty(tagList)
      opNames == OperationNames(names)
      groups == ParentGroups(tags) \o StandaloneGroups(tags, opNames)
  IN IF Len(groups) = 0 THEN Undef
     ELSE List([g \in 1..Len(groups) |-> GroupEntry(tags, opNames, groups[g])])

MaxGroupTags == 3     \* longest generated list of tags
MaxOperationTags == 2 \* longest generated list of operation tag names

\* a parent with or without itself for parent, and children with a parent, with
\* another parent, with none and with an empty one
GroupTagPool ==
  {[name |-> "P"], [name |-> "P", parent |-> "P"], [name |-> "C1"],
   [name |-> "C1", parent |-> "P"], [name |-> "C1", parent |-> "Q"],
   [name |-> "C2", parent |-> "P"], [name |-> "C2", parent |-> ""]}

OperationNamePool == {Plain("P"), Padded("C1"), Plain("X"), Padded("")}

RECURSIVE ListsFrom(_, _)
ListsFrom(pool, n) ==
  IF n = 0 THEN {<<>>}
  ELSE LET shorter == ListsFrom(pool, n - 1)
       IN shorter \cup {Append(l, x) : l \in {y \in shorter : Len(y) = n - 1},
                                       x \in pool}

InitGroups ==
  /\ pc = "tags"
  /\ tagObjects \in {Undef} \cup {List(l) : l \in ListsFrom(GroupTagPool, MaxGroupTags)}
  /\ operationTagNames \in
       {Undef, List(<<Undef, Plain("X")>>)}
       \cup {List(l) : l \in ListsFrom(OperationNamePool, MaxOperationTags)}
  /\ xTagGroups = Undef
  /\ NormIdle /\ VersionIdle /\ DocIdle /\ RouteIdle /\ WalkIdle /\ TagIdle /\ ServeIdle

BuildXTagGroups ==
  /\ pc = "tags"
  /\ xTagGroups' = buildXTagGroupsUtil(tagObjects, operationTagNames)
  /\ pc' = "grouped"
  /\ UNCHANGED <<tagObjects, operationTagNames, normVars, versionVars, docVars, routeVars, walkVars, tagVars, serveVars>>

NextGroups == BuildXTagGroups

SpecGroups == InitGroups /\ [][NextGroups]_vars

----------------------------------------------------------------------------
\* The tag scenario: mergeTags on the tags of a configuration and of a scan

MaxUserTags == 2     \* longest generated list of configuration tags
MaxScanTags == 2     \* longest generated list of scanned tags

\* tags A, B and C with different fields, and tags without a name: an empty
\* one, none at all, and no tag
MergePool ==
  {[name |-> "A"], [name |-> "A", description |-> "d1"],
   [name |-> "A", description |-> "d2", summary |-> "s"],
   [name |-> "B", description |-> "d1"], [name |-> "C", parent |-> "A"],
   [name |-> ""], [description |-> "d1"], Undef}

InitTags ==
  /\ pc = "merge"
  /\ userTags \in {Undef} \cup {List(l) : l \in ListsFrom(MergePool, MaxUserTags)}
  /\ scanTags \in {Undef} \cup {List(l) : l \in ListsFrom(MergePool, MaxScanTags)}
  /\ mergedTagList = Undef
  /\ NormIdle /\ VersionIdle /\ DocIdle /\ RouteIdle /\ GroupIdle /\ WalkIdle /\ ServeIdle

MergeTags ==
  /\ pc = "merge"
  /\ mergedTagList' = mergeTags(userTags, scanTags)
  /\ pc' = "merged"
  /\ UNCHANGED <<userTags, scanTags, normVars, versionVars, docVars, routeVars, groupVars, walkVars, serveVars>>

NextTags == MergeTags

SpecTags == InitTags /\ [][NextTags]_vars

----------------------------------------------------------------------------
\* The calls of normalizeNullableSchema: one step for each invocation.  A node
\* is named by the way to it from the table of schemas: the name of a schema,
\* then for each level the slot, the property name and the list position.

Step(key, name, index) == [key |-> key, name |-> name, index |-> index]

\* the value a step leads to from a literal node
ChildAt(node, step) ==
  CASE step.key \in {"properties", "patternProperties"} -> node.o[step.key][step.name]
    [] step.key \in {"allOf", "oneOf", "anyOf"} -> node.o[step.key][step.index]
    [] OTHER -> node.o[step.key]

RECURSIVE NodeAt(_, _)
NodeAt(tbl, way) ==
  IF Len(way) = 1 THEN tbl[way[1].name]
  ELSE ChildAt(NodeAt(tbl, SubSeq(way, 1, Len(way) - 1)), way[Len(way)])

\* the members of a set of names one after the other
RECURSIVE InOrder(_)
InOrder(S) ==
  IF S = {} THEN <<>>
  ELSE LET first == CHOOSE x \in S : TRUE IN <<first>> \o InOrder(S \ {first})

\* lines 84-136: the slots an invocation on a literal node calls itself on
ChildSteps(o) ==
  LET Entries(key) ==
        IF Has(o, key)
        THEN [i \in 1..Cardinality(DOMAIN o[key]) |->
                Step(key, InOrder(DOMAIN o[key])[i], 0)]
        ELSE <<>>
      ListSteps(key) ==
        IF Has(o, key) THEN [i \in 1..Len(o[key]) |-> Step(key, "", i)] ELSE <<>>
      Single(key) ==
        IF Has(o, key) /\ IsObj(o[key]) THEN <<Step(key, "", 0)>> ELSE <<>>
      Truthy(key) ==
        IF Has(o, key) /\ o[key] \notin {Undef, Bool(FALSE)}
        THEN <<Step(key, "", 0)>> ELSE <<>>
  IN Entries("properties") \o Entries("patternProperties")
     \o Single("additionalProperties") \o Single("items")
     \o ListSteps("allOf") \o ListSteps("oneOf") \o ListSteps("anyOf") \o Truthy("not")

ChildWays(tbl, way) ==
  LET node == NodeAt(tbl, way)
      steps == ChildSteps(IF IsObj(node) THEN node.o ELSE EmptyObject)
  IN [i \in 1..Len(steps) |-> Append(way, steps[i])]

\* the schema of the table a reference names, "" when it names none
ReferenceTarget(tbl, node) ==
  CASE node.o["$ref"] = "#/components/schemas/Foo" /\ Has(tbl, "Foo") -> "Foo"
    [] node.o["$ref"] = "#/components/schemas/Bar" /\ Has(tbl, "Bar") -> "Bar"
    [] OTHER -> ""

\* a variant that goes on to the schema a reference names
CalleesFollowingReferences(tbl, way) ==
  LET node == NodeAt(tbl, way)
  IN IF node = Undef \/ node = Bool(FALSE) THEN <<>>
     ELSE IF isReferenceObject(node)
          THEN IF ReferenceTarget(tbl, node) = "" THEN <<>>
               ELSE <<<<Step("", ReferenceTarget(tbl, node), 0)>>>>
          ELSE ChildWays(tbl, way)

\* lines 75-80: no further call on undefined, on false or on a reference
Callees(tbl, way) ==
  LET node == NodeAt(tbl, way)
  IN IF node = Undef \/ node = Bool(FALSE) THEN <<>>
     ELSE IF isReferenceObject(node) THEN <<>>
     ELSE ChildWays(tbl, way)

\* Memory: an object is a cell at an address; a schema-bearing slot of a cell
\* holds a pointer to the cell of the child, or the child itself when it is no
\* object.  The cells of the input are at the address of their way; the
\* normalizer makes its cells at addresses of their own.

InputAddress(way) == [space |-> "input", way |-> way]
CopyAddress(way) == [space |-> "copy", way |-> way]
WrapAddress(way) == [space |-> "wrap", way |-> way]
NullTypeAddress == [space |-> "NULL_TYPE_SCHEMA", way |-> <<>>]

\* an object with each schema-bearing slot replaced by At(child, step)
WithChildren(o, At(_, _)) ==
  [key \in DOMAIN o |->
     CASE key \in {"properties", "patternProperties"} ->
            [name \in DOMAIN o[key] |-> At(o[key][name], Step(key, name, 0))]
       [] key \in {"allOf", "oneOf", "anyOf"} ->
            [i \in 1..Len(o[key]) |-> At(o[key][i], Step(key, "", i))]
       [] key \in {"additionalProperties", "items", "not"} -> At(o[key], Step(key, "", 0))
       [] OTHER -> o[key]]

\* the ways to the objects of the input that the normalizer can reach
RECURSIVE ReachableWays(_, _)
ReachableWays(tbl, way) ==
  IF ~IsObj(NodeAt(tbl, way)) \/ isReferenceObject(NodeAt(tbl, way)) THEN {way}
  ELSE {way} \cup UNION {ReachableWays(tbl, ChildWays(tbl, way)[i]) :
                           i \in 1..Len(ChildWays(tbl, way))}

InputWays(tbl) ==
  {way \in UNION {ReachableWays(tbl, <<Step("", name, 0)>>) : name \in DOMAIN tbl} :
     IsObj(NodeAt(tbl, way))}

\* the input in memory, and the shared null-type constant
InputCell(tbl, way) ==
  IF isReferenceObject(NodeAt(tbl, way)) THEN NodeAt(tbl, way).o
  ELSE WithChildren(NodeAt(tbl, way).o,
                    LAMBDA child, step :
                      IF IsObj(child) THEN Ptr(InputAddress(Append(way, step)))
                      ELSE child)

InputHeap(tbl) ==
  [address \in {InputAddress(way) : way \in InputWays(tbl)} \cup {NullTypeAddress} |->
     IF address = NullTypeAddress THEN NULL_TYPE_SCHEMA.o
     ELSE InputCell(tbl, address.way)]

\* a variant that works on the schema itself
ConvertedIsSchema(way) == InputAddress(way)

\* line 82: const converted = { ...schema }
Converted(way) == CopyAddress(way)

\* lines 192-200: a nullable node without type, oneOf and anyOf is wrapped
Wraps(node) ==
  /\ IsObj(node) /\ IsNullable(node.o)
  /\ ~Has(node.o, "type") /\ ~Has(node.o, "oneOf") /\ ~Has(node.o, "anyOf")

\* is the slot one the normalizer calls itself on (lines 104-136)
CalledOn(child, step) ==
  CASE step.key \in {"additionalProperties", "items"} -> IsObj(child)
    [] OTHER -> TRUE

\* what an invocation on the child at a way returns: the child itself when it
\* is undefined, false or a reference, else the copy or its wrapper
Returned(child, way) ==
  IF child = Undef \/ child = Bool(FALSE) THEN child
  ELSE IF isReferenceObject(child) THEN Ptr(InputAddress(way))
  ELSE IF Wraps(child) THEN Ptr(WrapAddress(way))
  ELSE Ptr(Converted(way))

\* appendNullOption on a list in memory: the members denote what their
\* normalized schemas denote
AppendNullPointer(pointers, members) ==
  IF \E i \in 1..Len(members) :
       /\ ~isReferenceObject(members[i])
       /\ DenotesNull(normalizeNullableSchema(members[i]))
  THEN pointers ELSE Append(pointers, Ptr(NullTypeAddress))

\* lines 82-190: the copy as the invocation leaves it
ConvertedCell(node, way) ==
  LET source == IF IsObj(node) THEN node.o ELSE EmptyObject
      converted ==
        StripNullable(MigrateExclusiveBounds(
          WithChildren(source,
                       LAMBDA child, step :
                         IF CalledOn(child, step)
                         THEN Returned(child, Append(way, step))
                         ELSE child)))
  IN IF ~IsNullable(source) THEN converted
     ELSE IF Has(source, "type") THEN WidenType(converted)
     ELSE IF Has(source, "oneOf")
          THEN Put(converted, "oneOf", AppendNullPointer(converted["oneOf"], source["oneOf"]))
     ELSE IF Has(source, "anyOf")
          THEN Put(converted, "anyOf", AppendNullPointer(converted["anyOf"], source["anyOf"]))
     ELSE converted

\* the cells an invocation writes: none for undefined, false and a reference
Written(node, way) ==
  IF node = Undef \/ node = Bool(FALSE) \/ isReferenceObject(node) THEN EmptyObject
  ELSE (Converted(way) :> ConvertedCell(node, way))
       @@ (IF Wraps(node)
           THEN (WrapAddress(way) :>
                   [anyOf |-> <<Ptr(Converted(way)), Ptr(NullTypeAddress)>>])
           ELSE EmptyObject)

\* the value a pointer leads to
RECURSIVE Reify(_, _)
Reify(h, v) ==
  IF ~IsPtr(v) THEN v
  ELSE Obj(WithChildren(h[v.to], LAMBDA child, step : Reify(h, child)))

MaxCalls == 12    \* more invocations than any generated table needs

\* the fields beside the slot: none, nullable, nullable with a legacy bound
WalkParents ==
  {EmptyObject, [nullable |-> Bool(TRUE)],
   [nullable |-> Bool(TRUE), exclusiveMinimum |-> Bool(TRUE), minimum |-> Num(0)]}

\* the schemas of the walk: every slot filled with each member of X
WalkSchemas(X) ==
  {Obj(p @@ c) :
     p \in WalkParents,
     c \in {("properties" :> (("a" :> x) @@ ("b" :> y))) : x \in X, y \in {RefFoo, Undef}}
        \cup {("patternProperties" :> ("^x" :> x)) : x \in X}
        \cup {("additionalProperties" :> x) : x \in X \cup Flags}
        \cup {("items" :> x) : x \in X \cup Flags}
        \cup {("not" :> x) : x \in X \cup Flags}
        \cup {(slot :> l) : slot \in {"allOf", "oneOf", "anyOf"},
                            l \in ListsOver(X)}}

\* Foo and Bar name each other and themselves
WalkLeaves ==
  {RefFoo, RefBar, Obj([type |-> Str("string"), nullable |-> Bool(TRUE)]),
   Obj([properties |-> [a |-> RefFoo]])}

SchemaTables ==
  {[Foo |-> foo, Bar |-> bar] :
     foo \in WalkSchemas(WalkLeaves),
     bar \in {RefFoo, Obj([properties |-> [a |-> RefFoo, b |-> Obj(EmptyObject)]]),
              Obj([items |-> Obj([allOf |-> <<RefBar, RefFoo>>])]),
              Bool(TRUE)}}

\* lines 385-389 of normalizeNullableForOas31: every schema of the table
InitWalk ==
  /\ pc = "walking"
  /\ schemaTable \in SchemaTables
  /\ stack = [i \in 1..Cardinality(DOMAIN schemaTable) |->
                <<Step("", InOrder(DOMAIN schemaTable)[i], 0)>>]
  /\ called = <<>>
  /\ heap = InputHeap(schemaTable)
  /\ NormIdle /\ VersionIdle /\ DocIdle /\ RouteIdle /\ GroupIdle /\ TagIdle /\ ServeIdle

\* one invocation: the node on top, and the calls it makes before the rest
Call ==
  /\ pc = "walking"
  /\ Len(stack) > 0
  /\ Len(called) < MaxCalls
  /\ called' = Append(called, Head(stack))
  /\ stack' = Callees(schemaTable, Head(stack)) \o Tail(stack)
  /\ heap' = Store(heap, Written(NodeAt(schemaTable, Head(stack)), Head(stack)))
  /\ UNCHANGED <<pc, schemaTable, normVars, versionVars, docVars, routeVars, groupVars, tagVars, serveVars>>

Return ==
  /\ pc = "walking"
  /\ Len(stack) = 0
  /\ pc' = "walked"
  /\ UNCHANGED <<walkVars, normVars, versionVars, docVars, routeVars, groupVars, tagVars, serveVars>>

NextWalk == Call \/ Return

SpecWalk == InitWalk /\ [][NextWalk]_vars /\ WF_vars(NextWalk)

----------------------------------------------------------------------------
\* Properties of the normalizer

Normalized == pc \in {"once", "twice"}
PlainSchema(n) == IsObj(n) /\ ~isReferenceObject(n)
Same(in, out, key) ==
  /\ Has(in, key) <=> Has(out, key)
  /\ Has(in, key) => in[key] = out[key]
Count(l, x) == Cardinality({i \in 1..Len(l) : l[i] = x})
NullSchema == Obj([type |-> Str("null")])

\* C1: normalizing the result of the normalizer again changes nothing
NormalizerIdempotent == pc = "twice" => twice = once

\* a nullable composition that the first call had to wrap, normalized twice
NormalizerIdempotentWitness ==
  /\ pc = "twice"
  /\ PlainSchema(schema)
  /\ IsNullable(schema.o)
  /\ Has(schema.o, "allOf")
  /\ once # schema
  /\ Has(once.o, "anyOf")

OriginalTypes(o) == IF IsList(o["type"]) THEN o["type"].l ELSE <<o["type"].s>>

\* C2: a nullable node with a type loses `nullable`, and its type becomes the
\* list of the original types in order followed by 'null', 'null' occurring once
NullableTypeCoercion ==
  (Normalized /\ PlainSchema(schema) /\ IsNullable(schema.o) /\ Has(schema.o, "type"))
  => LET orig == OriginalTypes(schema.o)
     IN /\ IsObj(once)
        /\ ~Has(once.o, "nullable")
        /\ Has(once.o, "type")
        /\ IsList(once.o["type"])
        /\ once.o["type"].l =
             IF Includes(orig, "null") THEN orig ELSE orig \o <<"null">>
        /\ Count(once.o["type"].l, "null") = 1

NullableTypeCoercionWitness ==
  /\ pc = "once"
  /\ schema = Obj([type |-> Str("string"), nullable |-> Bool(TRUE)])
  /\ once = Obj([type |-> List(<<"string", "null">>)])

\* the rule of one exclusive bound, read on the fields `out` of a result
BoundRule(in, out, flag, bound) ==
  /\ (Has(in, flag) /\ in[flag] = Bool(TRUE) /\ Has(in, bound) /\ IsNum(in[bound]))
       => (Has(out, flag) /\ out[flag] = in[bound] /\ ~Has(out, bound))
  /\ (Has(in, flag) /\ IsBool(in[flag])
        /\ ~(in[flag] = Bool(TRUE) /\ Has(in, bound) /\ IsNum(in[bound])))
       => (~Has(out, flag) /\ Same(in, out, bound))
  /\ (Has(in, flag) /\ IsNum(in[flag]))
       => (Same(in, out, flag) /\ Same(in, out, bound))
  /\ ~Has(in, flag) => (~Has(out, flag) /\ Same(in, out, bound))

\* the node is nullable and has no type, oneOf or anyOf: it gets wrapped
Wrapped(o) ==
  IsNullable(o) /\ ~Has(o, "type") /\ ~Has(o, "oneOf") /\ ~Has(o, "anyOf")

\* C4 as stated: the migrated bounds are fields of the result, for every node
ExclusiveBoundsOnResult ==
  (Normalized /\ PlainSchema(schema))
  => /\ BoundRule(schema.o, once.o, "exclusiveMinimum", "minimum")
     /\ BoundRule(schema.o, once.o, "exclusiveMaximum", "maximum")

\* the fields of the node after migration: the first anyOf member of a wrapped node
MigratedFields ==
  IF Wrapped(schema.o) THEN once.o["anyOf"][1].o ELSE once.o

\* C4: the exclusive bounds are migrated on the node that carries them: the
\* result, or the first anyOf member when the nullable node was wrapped
ExclusiveBoundsMigrated ==
  (Normalized /\ PlainSchema(schema))
  => /\ BoundRule(schema.o, MigratedFields, "exclusiveMinimum", "minimum")
     /\ BoundRule(schema.o, MigratedFields, "exclusiveMaximum", "maximum")

ExclusiveBoundsMigratedWitness ==
  /\ pc = "once"
  /\ PlainSchema(schema)
  /\ Has(schema.o, "exclusiveMinimum") /\ schema.o["exclusiveMinimum"] = Bool(TRUE)
  /\ Has(schema.o, "minimum") /\ schema.o["minimum"] = Num(1)
  /\ Has(schema.o, "exclusiveMaximum") /\ schema.o["exclusiveMaximum"] = Bool(FALSE)
  /\ Has(schema.o, "maximum") /\ schema.o["maximum"] = Num(0)
  /\ Has(once.o, "exclusiveMinimum") /\ once.o["exclusiveMinimum"] = Num(1)
  /\ ~Has(once.o, "minimum")
  /\ ~Has(once.o, "exclusiveMaximum")

\* C5: a nullable node without type, oneOf and anyOf becomes exactly
\* {anyOf: [N, {type:'null'}]}, N being the node normalized without its flag
CompositionWrapped ==
  (Normalized /\ PlainSchema(schema) /\ Wrapped(schema.o))
  => LET N == normalizeNullableSchema(Obj(Delete(schema.o, "nullable")))
     IN /\ once = Obj([anyOf |-> <<N, NullSchema>>])
        /\ ~Has(N.o, "nullable")
        /\ \A flag \in {"exclusiveMinimum", "exclusiveMaximum"} :
             Has(N.o, flag) => ~IsBool(N.o[flag])
        /\ DOMAIN N.o \subseteq DOMAIN schema.o \ {"nullable"}
        /\ DOMAIN schema.o \ {"nullable", "exclusiveMinimum", "exclusiveMaximum",
                              "minimum", "maximum"} \subseteq DOMAIN N.o

CompositionWrappedWitness ==
  /\ pc = "once"
  /\ PlainSchema(schema)
  /\ Wrapped(schema.o)
  /\ Has(schema.o, "allOf")
  /\ Len(once.o["anyOf"]) = 2
  /\ Has(once.o["anyOf"][1].o, "allOf")

\* what C6 expects of a widened list
WidenedList(members, out) ==
  LET fresh == NormalizeAll(members)
      already == \E i \in 1..Len(fresh) :
                   /\ PlainSchema(fresh[i])
                   /\ Has(fresh[i].o, "type")
                   /\ \/ fresh[i].o["type"] = Str("null")
                      \/ /\ IsList(fresh[i].o["type"])
                         /\ Includes(fresh[i].o["type"].l, "null")
  IN /\ out = IF already THEN fresh ELSE fresh \o <<NullSchema>>
     /\ already => Len(out) = Len(members)

\* C6: a nullable node without type gets {type:'null'} appended to its oneOf
\* (else to its anyOf) exactly when no non-reference member denotes null
OneOfAnyOfWidened ==
  (Normalized /\ PlainSchema(schema) /\ IsNullable(schema.o) /\ ~Has(schema.o, "type"))
  => IF Has(schema.o, "oneOf")
     THEN /\ WidenedList(schema.o["oneOf"], once.o["oneOf"])
          /\ Has(schema.o, "anyOf")
               => once.o["anyOf"] = NormalizeAll(schema.o["anyOf"])
     ELSE Has(schema.o, "anyOf") => WidenedList(schema.o["anyOf"], once.o["anyOf"])

\* a oneOf whose member denotes null only after it was normalized itself
OneOfAnyOfWidenedWitness ==
  /\ pc = "once"
  /\ PlainSchema(schema)
  /\ IsNullable(schema.o)
  /\ ~Has(schema.o, "type")
  /\ Has(schema.o, "oneOf")
  /\ Has(schema.o, "anyOf")
  /\ schema.o["oneOf"] = <<Obj([type |-> Str("string"), nullable |-> Bool(TRUE)])>>
  /\ once.o["oneOf"] = <<Obj([type |-> List(<<"string", "null">>)])>>

----------------------------------------------------------------------------
\* Properties of createDocument.  The slots of a document are read off the
\* interfaces: every place that holds a schema, with its path, and every
\* reference object standing for a parameter, request body, response, header
\* or callback.

\* the node carries $ref
CarriesRef(o) == "$ref" \in DOMAIN o /\ o["$ref"] # ""

SchemaSlot(path, node) == [path |-> path, kind |-> "schema", node |-> node]
ReferenceSlot(path, object) == [path |-> path, kind |-> "reference", node |-> Obj(object)]

\* the slot of field `key` of an object, if it is set
FieldSlot(object, key, path) ==
  IF Has(object, key) THEN {SchemaSlot(Append(path, key), object[key])} ELSE {}

RECURSIVE ParameterSlots(_, _, _)

\* with encoded: the headers of the encoding of a media type as well
MediaTypeSlots(mediaType, path, encoded) ==
  FieldSlot(mediaType, "schema", path) \cup FieldSlot(mediaType, "itemSchema", path)
  \cup (IF encoded /\ Has(mediaType, "encoding")
        THEN UNION {UNION {ParameterSlots(mediaType["encoding"][e]["headers"][h],
                                          path \o <<"encoding", e, "headers", h>>,
                                          encoded) :
                             h \in DOMAIN mediaType["encoding"][e]["headers"]} :
                      e \in {x \in DOMAIN mediaType["encoding"] :
                               Has(mediaType["encoding"][x], "headers")}}
        ELSE {})

ContentSlots(object, path, encoded) ==
  IF Has(object, "content")
  THEN UNION {MediaTypeSlots(object["content"][n], path \o <<"content", n>>, encoded) :
                n \in DOMAIN object["content"]}
  ELSE {}

\* a parameter or a header
ParameterSlots(parameter, path, encoded) ==
  IF CarriesRef(parameter) THEN {ReferenceSlot(path, parameter)}
  ELSE FieldSlot(parameter, "schema", path) \cup ContentSlots(parameter, path, encoded)

HeadersSlots(object, path, encoded) ==
  IF Has(object, "headers")
  THEN UNION {ParameterSlots(object["headers"][h], path \o <<"headers", h>>, encoded) :
                h \in DOMAIN object["headers"]}
  ELSE {}

RequestBodySlots(requestBody, path, encoded) ==
  IF CarriesRef(requestBody) THEN {ReferenceSlot(path, requestBody)}
  ELSE ContentSlots(requestBody, path, encoded)

ResponseSlots(response, path, encoded) ==
  IF CarriesRef(response) THEN {ReferenceSlot(path, response)}
  ELSE ContentSlots(response, path, encoded) \cup HeadersSlots(response, path, encoded)

ParameterListSlots(object, path, encoded) ==
  IF Has(object, "parameters")
  THEN UNION {ParameterSlots(object["parameters"][i],
                             path \o <<"parameters", ToString(i)>>, encoded) :
                i \in 1..Len(object["parameters"])}
  ELSE {}

RECURSIVE PathItemSlots(_, _, _)

CallbackSlots(callback, path, encoded) ==
  IF CarriesRef(callback) THEN {ReferenceSlot(path, callback)}
  ELSE UNION {PathItemSlots(callback[x], Append(path, x), encoded) : x \in DOMAIN callback}

OperationSlots(operation, path, encoded) ==
  ParameterListSlots(operation, path, encoded)
  \cup (IF Has(operation, "requestBody")
        THEN RequestBodySlots(operation["requestBody"], Append(path, "requestBody"), encoded)
        ELSE {})
  \cup (IF Has(operation, "responses")
        THEN UNION {ResponseSlots(operation["responses"][s],
                                  path \o <<"responses", s>>, encoded) :
                      s \in DOMAIN operation["responses"]}
        ELSE {})
  \cup (IF Has(operation, "callbacks")
        THEN UNION {CallbackSlots(operation["callbacks"][c],
                                  path \o <<"callbacks", c>>, encoded) :
                      c \in DOMAIN operation["callbacks"]}
        ELSE {})

PathItemSlots(pathItem, path, encoded) ==
  ParameterListSlots(pathItem, path, encoded)
  \cup UNION {OperationSlots(pathItem[m], Append(path, m), encoded) :
                m \in DOMAIN pathItem \cap
                      {"get", "put", "post", "delete", "options", "head", "patch",
                       "trace", "search", "query"}}

PathItemsSlots(doc, key, encoded) ==
  IF Has(doc, key)
  THEN UNION {PathItemSlots(doc[key][p], <<key, p>>, encoded) : p \in DOMAIN doc[key]}
  ELSE {}

ComponentSlots(table, category, name, encoded) ==
  LET path == <<"components", category, name>>
  IN CASE category = "schemas" -> {SchemaSlot(path, table[name])}
       [] category \in {"parameters", "headers"} ->
            ParameterSlots(table[name], path, encoded)
       [] category = "requestBodies" -> RequestBodySlots(table[name], path, encoded)
       [] category = "responses" -> ResponseSlots(table[name], path, encoded)
       [] category = "callbacks" -> CallbackSlots(table[name], path, encoded)
       [] OTHER -> {}

DocumentSlots(doc, encoded) ==
  UNION {UNION {ComponentSlots(doc["components"][c], c, n, encoded) :
                  n \in DOMAIN doc["components"][c]} :
           c \in DOMAIN doc["components"]}
  \cup PathItemsSlots(doc, "paths", encoded)
  \cup PathItemsSlots(doc, "webhooks", encoded)

\* the children of a schema the walker of the claims goes through
SchemaChildren(o) ==
  UNION {{o[key][name] : name \in DOMAIN o[key]} :
           key \in DOMAIN o \cap {"properties", "patternProperties"}}
  \cup {o[key] : key \in {x \in DOMAIN o \cap {"additionalProperties", "items", "not"} :
                            IsObj(o[x])}}
  \cup UNION {{o[key][i] : i \in 1..Len(o[key])} :
                key \in DOMAIN o \cap {"allOf", "oneOf", "anyOf"}}

\* no schema of the node, references not crossed, carries a legacy field
RECURSIVE FreeOfLegacy(_)
FreeOfLegacy(node) ==
  IF ~IsObj(node) \/ CarriesRef(node.o) THEN TRUE
  ELSE /\ ~Has(node.o, "nullable")
       /\ \A flag \in DOMAIN node.o \cap {"exclusiveMinimum", "exclusiveMaximum"} :
            ~IsBool(node.o[flag])
       /\ \A child \in SchemaChildren(node.o) : FreeOfLegacy(child)

\* the reference nodes of a schema, references not crossed
RECURSIVE ReferencesIn(_)
ReferencesIn(node) ==
  IF ~IsObj(node) THEN {}
  ELSE IF CarriesRef(node.o) THEN {node}
  ELSE UNION {ReferencesIn(child) : child \in SchemaChildren(node.o)}

Created == pc = "created"
TargetVersion == Get(config, "openapi")
LegacyVersions == {Undef, V300, VBad, V3, VEmpty, V4a}
ModernVersions == {V310, V320, V40}

\* the component tables of a source; none when the source has no components
ComponentsOf(doc) == IF Has(doc, "components") THEN doc["components"] ELSE EmptyObject
ItemNames(components, category) ==
  IF Has(components, category) THEN DOMAIN components[category] ELSE {}

\* an entry of a component table as supplied: the scan's, else the
\* configuration's
Supplied(category, name) ==
  IF name \in ItemNames(ComponentsOf(scanned), category)
  THEN scanned["components"][category][name]
  ELSE config["components"][category][name]

ReferencesBySlot(doc) ==
  {[path |-> x.path, references |-> ReferencesIn(x.node)] :
     x \in DocumentSlots(doc, TRUE)}

\* the slots that hold a reference: a reference object in place of a
\* parameter, request body, response, header or callback, or a reference as
\* the schema of the slot
ReferenceSlots(doc) ==
  {x \in DocumentSlots(doc, TRUE) :
     x.kind = "reference" \/ (IsObj(x.node) /\ CarriesRef(x.node.o))}

\* C7: every reference of the merged document is in the returned document
\* unchanged and in its place, whether it stands for a parameter, request
\* body, response, header or callback, is the schema of a slot, or lies
\* inside the schema of a slot
ReferenceOpacity ==
  Created
  => /\ ReferenceSlots(mergedDocument) \subseteq ReferenceSlots(document)
     /\ ReferencesBySlot(document) = ReferencesBySlot(mergedDocument)

\* at 3.1 a reference with legacy sibling fields is kept as a component and
\* as the child of a schema that is itself rewritten, its target is normalized,
\* and the reference objects of the operations are kept
ReferenceOpacityWitness ==
  /\ Created
  /\ TargetVersion = V310
  /\ mergedDocument["components"]["schemas"]["Dto"]
       = Obj([type |-> Str("array"), items |-> RefBar, nullable |-> Bool(TRUE)])
  /\ document["components"]["schemas"]["Dto"]
       = Obj([type |-> List(<<"array", "null">>), items |-> RefBar])
  /\ document["components"]["schemas"]["Alias"] = RefBar
  /\ mergedDocument["components"]["schemas"]["Bar"] = LegacySchema
  /\ document["components"]["schemas"]["Bar"] = Obj([type |-> List(<<"string", "null">>)])
  /\ document["paths"]["/a"]["parameters"][2] = RefOf("#/components/parameters/P")
  /\ document["paths"]["/r"]["post"]["requestBody"] = RefOf("#/components/requestBodies/B")
  /\ document["components"]["headers"]["R"] = RefOf("#/components/headers/H")

\* the schemas of the slots the normalizer of the document goes to
VisitedSlotsFreeOfLegacy ==
  (Created /\ TargetVersion \in ModernVersions)
  => \A x \in DocumentSlots(document, FALSE) :
       x.kind = "schema" => FreeOfLegacy(x.node)

\* C8: at 3.1 and above no schema of the returned document, references not
\* crossed, carries `nullable` or a boolean exclusive bound
DocumentFreeOfLegacy ==
  (Created /\ TargetVersion \in ModernVersions)
  => \A x \in DocumentSlots(document, TRUE) :
       x.kind = "schema" => FreeOfLegacy(x.node)

----------------------------------------------------------------------------
\* Properties of the tags of createDocument

TagsOf(doc) == IF Has(doc, "tags") THEN doc["tags"].l ELSE <<>>
NamesOf(tags) == {tags[i]["name"] : i \in {j \in 1..Len(tags) : ~Nameless(tags[j])}}
\* the tag of a name; of several, the last
TagNamed(tags, n) ==
  tags[CHOOSE i \in 1..Len(tags) :
         /\ ~Nameless(tags[i]) /\ tags[i]["name"] = n
         /\ \A j \in (i + 1)..Len(tags) : Nameless(tags[j]) \/ tags[j]["name"] # n]

\* C14: webhooks, tags and x-tagGroups are each absent or not empty in the
\* returned document
FieldsAbsentOrNonEmpty ==
  Created
  => /\ Has(document, "webhooks") => DOMAIN document["webhooks"] # {}
     /\ Has(document, "tags") => Len(document["tags"].l) > 0
     /\ Has(document, "x-tagGroups") => Len(document["x-tagGroups"].l) > 0

\* the same for a configuration that supplies none of the three fields empty
SuppliedFieldsNotEmpty ==
  /\ Has(config, "webhooks") => DOMAIN config["webhooks"] # {}
  /\ Has(config, "tags") => Len(config["tags"].l) > 0
  /\ Has(config, "x-tagGroups") => Len(config["x-tagGroups"].l) > 0
DerivedFieldsNotEmpty ==
  (Created /\ SuppliedFieldsNotEmpty)
  => /\ Has(document, "webhooks") => DOMAIN document["webhooks"] # {}
     /\ Has(document, "tags") => Len(document["tags"].l) > 0
     /\ Has(document, "x-tagGroups") => Len(document["x-tagGroups"].l) > 0

\* the names declared by the user and found by the scan
SharedNames == NamesOf(TagsOf(config)) \cap NamesOf(TagsOf(scanned))

\* C15: for a name declared on both sides, description, externalDocs, parent
\* and kind of the merged tag are the user's where the user sets them and the
\* scanned ones only where the user does not
UserFieldsWin ==
  Created
  => \A n \in SharedNames :
       /\ n \in NamesOf(TagsOf(document))
       /\ \A f \in {"description", "externalDocs", "parent", "kind"} :
            LET user == TagNamed(TagsOf(config), n)
                scan == TagNamed(TagsOf(scanned), n)
                merged == TagNamed(TagsOf(document), n)
            IN IF Has(user, f) THEN Has(merged, f) /\ merged[f] = user[f]
               ELSE IF Has(scan, f) THEN Has(merged, f) /\ merged[f] = scan[f]
               ELSE ~Has(merged, f)

\* the user sets description and parent, the scan sets parent and kind
UserFieldsWinWitness ==
  /\ Created
  /\ TagsOf(config) = <<[name |-> "A", description |-> "user", parent |-> "user"]>>
  /\ TagsOf(scanned) = <<[name |-> "A", parent |-> "scan", kind |-> "scan"]>>
  /\ TagsOf(document)
       = <<[name |-> "A", description |-> "user", parent |-> "user", kind |-> "scan"]>>

DisplayNames == {"summary", "x-displayName"}

\* C16: for a name that has a scanned tag, once either side sets a display
\* field the merged tag has both, with one value
DisplayFieldsMirrored ==
  Created
  => \A n \in NamesOf(TagsOf(scanned)) :
       LET scan == TagNamed(TagsOf(scanned), n)
           merged == TagNamed(TagsOf(document), n)
           declared == n \in NamesOf(TagsOf(config))
       IN (\/ DOMAIN scan \cap DisplayNames # {}
           \/ declared /\ DOMAIN TagNamed(TagsOf(config), n) \cap DisplayNames # {})
          => /\ DisplayNames \subseteq DOMAIN merged
             /\ merged["summary"] = merged["x-displayName"]

\* the same where no side sets the two fields to different values
SetsOneDisplayValue(tag) ==
  DisplayNames \subseteq DOMAIN tag => tag["summary"] = tag["x-displayName"]
DisplayFieldsMirroredIfAgreed ==
  Created
  => \A n \in NamesOf(TagsOf(scanned)) :
       LET scan == TagNamed(TagsOf(scanned), n)
           merged == TagNamed(TagsOf(document), n)
           declared == n \in NamesOf(TagsOf(config))
       IN (/\ \/ DOMAIN scan \cap DisplayNames # {}
              \/ declared /\ DOMAIN TagNamed(TagsOf(config), n) \cap DisplayNames # {}
           /\ SetsOneDisplayValue(scan)
           /\ declared => SetsOneDisplayValue(TagNamed(TagsOf(config), n)))
          => /\ DisplayNames \subseteq DOMAIN merged
             /\ merged["summary"] = merged["x-displayName"]

\* C17: a tag declared by the user only, with one of the two display fields,
\* comes out with both fields set to that value
UserTagMirrored ==
  Created
  => \A n \in NamesOf(TagsOf(config)) \ NamesOf(TagsOf(scanned)) :
       LET user == TagNamed(TagsOf(config), n)
           merged == TagNamed(TagsOf(document), n)
       IN \A f \in DisplayNames :
            (DOMAIN user \cap DisplayNames = {f})
              => /\ DisplayNames \subseteq DOMAIN merged
                 /\ merged["summary"] = user[f]
                 /\ merged["x-displayName"] = user[f]

\* the parents of the tags of a document
ParentsOf(tags) ==
  {tags[i]["parent"] : i \in {j \in 1..Len(tags) : HasParent(tags[j])}}

\* C20: x-tagGroups of the configuration is returned as it is, whatever the
\* parents of the tags; without it the field is there exactly when a tag has
\* a parent, with one group for each parent
ExplicitGroupsKept ==
  Created
  => IF Has(config, "x-tagGroups")
     THEN Has(document, "x-tagGroups")
          /\ document["x-tagGroups"] = config["x-tagGroups"]
     ELSE /\ Has(document, "x-tagGroups") <=> ParentsOf(TagsOf(document)) # {}
          /\ Has(document, "x-tagGroups")
               => {document["x-tagGroups"].l[i]["name"] :
                     i \in 1..Len(document["x-tagGroups"].l)}
                    = ParentsOf(TagsOf(document))

\* explicit groups next to tags with parents, from both sides
ExplicitGroupsKeptWitness ==
  /\ Created
  /\ Has(config, "x-tagGroups")
  /\ config["x-tagGroups"] = List(<<[name |-> "all", tags |-> <<"P">>]>>)
  /\ ParentsOf(TagsOf(document)) = {"P", "Q"}
  /\ TagsOf(scanned) # <<>>
  /\ document["x-tagGroups"] = List(<<[name |-> "all", tags |-> <<"P">>]>>)

----------------------------------------------------------------------------
\* Properties of buildXTagGroups

Grouped == pc = "grouped"
GivenTags == ListOrEmpty(tagObjects)
DerivedGroups == ListOrEmpty(xTagGroups)

\* the parents that tags declare, and where each is first declared
DeclaredParents ==
  {GivenTags[i]["parent"] : i \in {j \in 1..Len(GivenTags) : HasParent(GivenTags[j])}}
Declares(i, parent) == HasParent(GivenTags[i]) /\ GivenTags[i]["parent"] = parent
FirstSeen(parent) ==
  CHOOSE i \in 1..Len(GivenTags) :
    Declares(i, parent) /\ \A j \in 1..(i - 1) : ~Declares(j, parent)
ChildrenOf(parent) ==
  {GivenTags[i]["name"] : i \in {j \in 1..Len(GivenTags) : Declares(j, parent)}}
FirstChild(name, parent) ==
  CHOOSE i \in 1..Len(GivenTags) :
    /\ Declares(i, parent) /\ GivenTags[i]["name"] = name
    /\ \A j \in 1..(i - 1) : ~(Declares(j, parent) /\ GivenTags[j]["name"] = name)
IsTagName(name) == \E i \in 1..Len(GivenTags) : GivenTags[i]["name"] = name

\* the names the operations refer to, white space around them aside
ReferencedNames ==
  IF operationTagNames = Undef THEN {}
  ELSE {operationTagNames.l[i].core :
          i \in {j \in 1..Len(operationTagNames.l) :
                   /\ operationTagNames.l[j].k = "string"
                   /\ operationTagNames.l[j].core # ""}}

\* one group per declared parent, in the order the parents are first seen
OneGroupPerParent ==
  /\ \A p \in DeclaredParents :
       Cardinality({g \in 1..Len(DerivedGroups) : DerivedGroups[g].name = p}) = 1
  /\ \A g, h \in 1..Len(DerivedGroups) :
       /\ DerivedGroups[g].name \in DeclaredParents
       /\ DerivedGroups[h].name \in DeclaredParents
       /\ g < h
       => FirstSeen(DerivedGroups[g].name) < FirstSeen(DerivedGroups[h].name)

\* list is the group of parent: its own name first if ownFirst, then the
\* children in the order they are first seen, no name twice
IsGroupList(list, parent, ownFirst) ==
  /\ \A i, j \in 1..Len(list) : list[i] = list[j] => i = j
  /\ Members(list) = ChildrenOf(parent) \cup (IF ownFirst THEN {parent} ELSE {})
  /\ ownFirst => list[1] = parent
  /\ \A i, j \in 1..Len(list) :
       list[i] # parent /\ list[j] # parent /\ i < j
       => FirstChild(list[i], parent) < FirstChild(list[j], parent)

SingletonGroups ==
  SubSeq(DerivedGroups, Cardinality(DeclaredParents) + 1, Len(DerivedGroups))
ChildTagNames ==
  {GivenTags[i]["name"] : i \in {j \in 1..Len(GivenTags) : HasParent(GivenTags[j])}}

ListedIn(group, tag) ==
  \E g \in 1..Len(DerivedGroups) :
    DerivedGroups[g].name = group /\ tag \in Members(DerivedGroups[g].tags)

NothingToGroupWitness ==
  /\ Grouped
  /\ tagObjects = List(<<[name |-> "C2", parent |-> ""]>>)
  /\ operationTagNames = List(<<Padded("")>>)
  /\ xTagGroups = Undef

----------------------------------------------------------------------------
\* Properties of the components of createDocument

\* C21: the merged components have the categories of either source; a
\* category's item names are the union of its item names in the configuration
\* and in the scan, and an item holds the scanned value when the scan defines
\* it and the configuration's value otherwise; a source without the category,
\* or without components, erases nothing.
ComponentMerge ==
  Created =>
    LET merged == mergedDocument["components"]
        declared == ComponentsOf(config)
        found == ComponentsOf(scanned)
    IN /\ DOMAIN merged = DOMAIN declared \cup DOMAIN found
       /\ \A category \in DOMAIN merged :
            /\ DOMAIN merged[category]
                 = ItemNames(declared, category) \cup ItemNames(found, category)
            /\ \A name \in DOMAIN merged[category] :
                 merged[category][name]
                   = IF name \in ItemNames(found, category)
                     THEN found[category][name]
                     ELSE declared[category][name]

\* a schema declared and scanned with different values comes out scanned, next
\* to a schema only declared, one only scanned, and a category only declared
ComponentMergeWitness ==
  /\ Created
  /\ Has(config, "components")
  /\ config["components"]["schemas"]["Shared"] # scanned["components"]["schemas"]["Shared"]
  /\ mergedDocument["components"]["schemas"]["Shared"]
       = scanned["components"]["schemas"]["Shared"]
  /\ DOMAIN mergedDocument["components"]["schemas"]
       = {"Cfg", "Shared", "Bar", "Alias", "Dto"}
  /\ ~Has(scanned["components"], "parameters")
  /\ mergedDocument["components"]["parameters"] = config["components"]["parameters"]


----------------------------------------------------------------------------
\* Properties of the operation tags of createDocument

\* the operations of a map of path items, as pairs of key and method
OperationsOf(items) ==
  UNION {{<<key, method>> : method \in DOMAIN items[key] \cap operationKeys} :
           key \in DOMAIN items}
OperationTagsAt(items, at) ==
  IF Has(items[at[1]][at[2]], "tags") THEN items[at[1]][at[2]]["tags"].l ELSE <<>>
\* the tag names the operations of a document use
OperationTagNamesOf(doc) ==
  UNION {Members(OperationTagsAt(doc["paths"], at)) : at \in OperationsOf(doc["paths"])}

\* C22: in a created document that has tags, every tag name an operation uses
\* has an entry in the tags, and every operation has the tags it was scanned
\* with; so a controller tagged with @ApiTags('TagA') alone, next to one with
\* @ApiTag({name: 'TagB'}), has TagA listed beside TagB, at 3.0.0 and at 3.1.0.
OperationTagsListed ==
  Created /\ Has(document, "tags") =>
    /\ OperationTagNamesOf(document) \subseteq NamesOf(TagsOf(document))
    /\ \A at \in OperationsOf(scanned["paths"]) :
         /\ at \in OperationsOf(document["paths"])
         /\ OperationTagsAt(document["paths"], at)
              = OperationTagsAt(scanned["paths"], at)

\* each operation has the tags it was scanned with
OperationTagsKept ==
  Created =>
    \A at \in OperationsOf(scanned["paths"]) :
      /\ at \in OperationsOf(document["paths"])
      /\ OperationTagsAt(document["paths"], at) = OperationTagsAt(scanned["paths"], at)


----------------------------------------------------------------------------
\* Properties of the calls of the normalizer

Walked == pc = "walked"

\* no node is called on twice
CalledOnce == \A i, j \in 1..Len(called) : called[i] = called[j] => i = j

\* no call is made on a node beneath a reference
ReferencesNotFollowed ==
  \A i \in 1..Len(called) :
    \A n \in 1..(Len(called[i]) - 1) :
      ~isReferenceObject(NodeAt(schemaTable, SubSeq(called[i], 1, n)))

\* C23: on every table of schemas, also one whose schemas refer to each other
\* and to themselves, the normalizer comes to an end, having been called at most
\* once on each node and never on a node beneath a reference.
WalkTerminates ==
  /\ [](CalledOnce /\ ReferencesNotFollowed)
  /\ <>Walked

\* Foo refers to Bar and to itself, Bar refers to Foo: six calls, then the end
WalkTerminatesWitness ==
  /\ Walked
  /\ schemaTable = [Foo |-> Obj([properties |-> [a |-> RefBar, b |-> RefFoo]]),
                    Bar |-> Obj([properties |-> [a |-> RefFoo, b |-> Obj(EmptyObject)]])]
  /\ Len(called) = 6


----------------------------------------------------------------------------
\* Properties of the memory of the normalizer

\* every cell of the input, and the null-type constant, is as it was
InputUnmodified ==
  /\ heap[NullTypeAddress] = NULL_TYPE_SCHEMA.o
  /\ \A way \in InputWays(schemaTable) :
       heap[InputAddress(way)] = InputCell(schemaTable, way)

\* what the walk leaves in memory for a schema is what the normalizer returns
ResultInMemory ==
  Walked =>
    \A name \in DOMAIN schemaTable :
      Reify(heap, Returned(schemaTable[name], <<Step("", name, 0)>>))
        = normalizeNullableSchema(schemaTable[name])


----------------------------------------------------------------------------
\* Properties of the memory of createDocument

\* every object of the configuration is as it was
ConfigUnmodified ==
  \A address \in DOMAIN ObjectInMemory("config", config) :
    memory[address] = ObjectInMemory("config", config)[address]

\* the document in memory is the document createDocument returns
DocumentInMemory ==
  Created => ObjectAt(memory, DocumentAddress) = document


\* The normalizer called on a table of schemas, or createDocument called on a
\* configuration and a scan
InitMemory == InitWalk \/ InitDoc
NextMemory == NextWalk \/ NextDoc
SpecMemory == InitMemory /\ [][NextMemory]_vars

----------------------------------------------------------------------------
\* Properties of mergeTags

Merged == pc = "merged"
UserList == ListOrEmpty(userTags)
ScanList == ListOrEmpty(scanTags)
MergedList == ListOrEmpty(mergedTagList)

\* a tag with a name that is not empty
IsNamed(tag) == "name" \in DOMAIN tag /\ tag["name"] # ""
Named(tags) == SelectSeq(tags, IsNamed)
NamesIn(tags) == {tags[i]["name"] : i \in {j \in 1..Len(tags) : IsNamed(tags[j])}}

\* C25: a tag without a non-empty name, declared or scanned, contributes
\* nothing: the merge of the lists is the merge of their named tags, and every
\* merged tag bears a name of a named tag; the merge returns undefined exactly
\* when neither list has a named tag, and a list that is not empty otherwise.
NamelessTagsSkipped ==
  Merged =>
    /\ mergedTagList = mergeTags(List(Named(UserList)), List(Named(ScanList)))
    /\ \A i \in 1..Len(MergedList) :
         IsNamed(MergedList[i]) /\ MergedList[i]["name"] \in NamesIn(UserList) \cup NamesIn(ScanList)
    /\ mergedTagList = Undef <=> NamesIn(UserList) \cup NamesIn(ScanList) = {}
    /\ mergedTagList # Undef => Len(mergedTagList.l) > 0

\* nameless tags on both sides and one named tag: the result is that tag
NamelessTagsSkippedWitness ==
  /\ Merged
  /\ userTags = List(<<[name |-> ""], [name |-> "B", description |-> "d1"]>>)
  /\ scanTags = List(<<[description |-> "d1"], Undef>>)
  /\ mergedTagList = List(<<[name |-> "B", description |-> "d1"]>>)

\* nothing but nameless tags: the merge returns undefined
NothingNamedWitness ==
  /\ Merged
  /\ userTags = List(<<[name |-> ""]>>)
  /\ scanTags = List(<<Undef, [description |-> "d1"]>>)
  /\ mergedTagList = Undef


NameList(tags) == [i \in 1..Len(tags) |-> tags[i]["name"]]

\* the names of the named tags of a stream, each once, in order of appearance
NamesInOrder(tags) == FirstOccurrences(NameList(Named(tags)))

\* the named tags of a stream that bear the name, in order
Bearing(tags, name) ==
  LET Bears(tag) == IsNamed(tag) /\ tag["name"] = name
  IN SelectSeq(tags, Bears)

ScannedOnlyNames ==
  LET IsScannedOnly(name) == name \notin NamesIn(UserList)
  IN SelectSeq(NamesInOrder(ScanList), IsScannedOnly)

PlainTagFields == {"description", "externalDocs", "parent", "kind"}

\* the first tag of the list that sets the field
EarliestSetting(tags, field) ==
  tags[CHOOSE i \in 1..Len(tags) :
         /\ Has(tags[i], field)
         /\ \A j \in 1..(i - 1) : ~Has(tags[j], field)]

\* C29: the merged list has one entry for each name of either stream: the
\* declared names in order of first declaration, then the names only scanned
\* in order of first scan; a name declared several times and not scanned has
\* the last declaration as its entry; a name only scanned has each plain field
\* from the earliest scanned tag that sets it.
MergedTagListShape ==
  Merged =>
    /\ NameList(MergedList) = NamesInOrder(UserList) \o ScannedOnlyNames
    /\ \A i, j \in 1..Len(MergedList) :
         MergedList[i]["name"] = MergedList[j]["name"] => i = j
    /\ \A i \in 1..Len(MergedList) :
         LET name == MergedList[i]["name"]
             declared == Bearing(UserList, name)
             scans == Bearing(ScanList, name)
         IN /\ (declared # <<>> /\ scans = <<>>) =>
                 MergedList[i] = declared[Len(declared)]
            /\ (declared = <<>>) =>
                 \A f \in PlainTagFields :
                   IF \E k \in 1..Len(scans) : Has(scans[k], f)
                   THEN /\ Has(MergedList[i], f)
                        /\ MergedList[i][f] = EarliestSetting(scans, f)[f]
                   ELSE ~Has(MergedList[i], f)

\* A is declared before B and scanned twice: A stays first, with the
\* description of the first scan
MergedTagListShapeWitness ==
  /\ Merged
  /\ userTags = List(<<[name |-> "A"], [name |-> "B", description |-> "d1"]>>)
  /\ scanTags = List(<<[name |-> "A", description |-> "d1"],
                       [name |-> "A", description |-> "d2", summary |-> "s"]>>)
  /\ NameList(MergedList) = <<"A", "B">>
  /\ MergedList[1]["description"] = "d1"

\* A is declared twice and C is only scanned
DeclaredTwiceWitness ==
  /\ Merged
  /\ userTags = List(<<[name |-> "A", description |-> "d1"],
                       [name |-> "A", description |-> "d2", summary |-> "s"]>>)
  /\ scanTags = List(<<[name |-> "C", parent |-> "A"]>>)
  /\ mergedTagList = List(<<[name |-> "A", description |-> "d2", summary |-> "s"],
                            [name |-> "C", parent |-> "A"]>>)

\* A is only scanned, twice
ScannedTwiceWitness ==
  /\ Merged
  /\ userTags = Undef
  /\ scanTags = List(<<[name |-> "A", description |-> "d1"],
                       [name |-> "A", description |-> "d2", summary |-> "s"]>>)
  /\ mergedTagList =
       List(<<Put([name |-> "A", description |-> "d1", summary |-> "s"],
                  "x-displayName", "s")>>)


----------------------------------------------------------------------------
\* Properties of the operations emitted by normalizePaths

\* the operations of a map of the result, each with the route it stems from
EmittedOperations(map) ==
  UNION {{map[key][method] : method \in DOMAIN map[key]} : key \in DOMAIN map}
AllEmittedOperations ==
  EmittedOperations(PathsOf(normalized)) \cup EmittedOperations(WebhooksOf(normalized))
RouteOf(operation) == denormalizedDoc[operation["operationId"]]

RootFieldsKept(route) == DOMAIN route["root"] \ OmittedRootKeys
RouteFields(route) == DOMAIN route \ {"root"}

\* C26: an emitted operation, under paths or under webhooks, has the fields
\* of its route other than root and the fields of the root other than method,
\* path, isWebhook and webhookName, and no other; a field of both has the
\* root's value; root is not a field of it, and a method, path, isWebhook or
\* webhookName of it is the route's own, never the root's.
EmittedOperationContents ==
  pc = "partitioned" =>
    \A operation \in AllEmittedOperations :
      LET route == RouteOf(operation)
      IN /\ DOMAIN operation = RouteFields(route) \cup RootFieldsKept(route)
         /\ \A key \in RootFieldsKept(route) : operation[key] = route["root"][key]
         /\ \A key \in RouteFields(route) \ RootFieldsKept(route) :
              operation[key] = route[key]
         /\ "root" \notin DOMAIN operation
         /\ \A key \in OmittedRootKeys \cap DOMAIN operation :
              key \in RouteFields(route) /\ operation[key] = route[key]

\* a route and a webhook whose summary, method and path differ from their
\* root's: each is emitted with the root's summary and the route's method and
\* path
EmittedOperationContentsWitness ==
  /\ pc = "partitioned"
  /\ options \in ModernOptions
  /\ Len(denormalizedDoc) = 2
  /\ EmittedAt(PathsOf(normalized), "/a", "get", 1)
  /\ EmittedAt(WebhooksOf(normalized), "hook", "get", 2)
  /\ \A operation \in AllEmittedOperations :
       /\ DOMAIN operation = {"responses", "summary", "method", "path", "operationId"}
       /\ operation["summary"] = "of the root"
       /\ operation["method"] = "put"
       /\ operation["path"] = "/c"
       /\ RouteOf(operation)["summary"] = "of the route"


----------------------------------------------------------------------------
\* Properties of the fields that normalization leaves alone

SchemaSlotNames ==
  {"properties", "patternProperties", "additionalProperties", "items",
   "allOf", "oneOf", "anyOf", "not"}
RewrittenSchemaFields ==
  {"nullable", "type", "exclusiveMinimum", "exclusiveMaximum", "minimum", "maximum"}
  \cup SchemaSlotNames

\* the node was given an anyOf that it did not have
WrappedInAnyOf(before, after) == ~Has(before.o, "anyOf") /\ Has(after.o, "anyOf")

\* the object that carries the fields of the node after normalization
Carrier(before, after) ==
  IF WrappedInAnyOf(before, after) THEN after.o["anyOf"][1].o ELSE after.o

RECURSIVE SiblingsKept(_, _)

\* the children of a slot, each with its counterpart
SlotSiblingsKept(slot, before, after) ==
  CASE slot \in {"properties", "patternProperties"} ->
         /\ DOMAIN after = DOMAIN before
         /\ \A name \in DOMAIN before : SiblingsKept(before[name], after[name])
    [] slot \in {"allOf", "oneOf", "anyOf"} ->
         /\ Len(after) >= Len(before)
         /\ \A i \in 1..Len(before) : SiblingsKept(before[i], after[i])
    [] OTHER -> SiblingsKept(before, after)

\* the fields of a literal node that are not rewritten are those of its
\* carrier, with the same values, and so for each node below it
SiblingsKept(before, after) ==
  IF ~IsObj(before) THEN TRUE
  ELSE IF isReferenceObject(before) THEN after = before
  ELSE LET carrier == Carrier(before, after)
       IN /\ DOMAIN carrier \ RewrittenSchemaFields
               = DOMAIN before.o \ RewrittenSchemaFields
          /\ \A key \in DOMAIN before.o \ RewrittenSchemaFields :
               carrier[key] = before.o[key]
          /\ \A slot \in DOMAIN before.o \cap SchemaSlotNames :
               /\ Has(carrier, slot)
               /\ SlotSiblingsKept(slot, before.o[slot], carrier[slot])

\* the slots that each container transform rewrites
RewrittenSlots(kind) ==
  CASE kind = "mediaType" -> {"schema", "itemSchema"}
    [] kind \in {"parameter", "header"} -> {"schema", "content"}
    [] kind = "requestBody" -> {"content"}
    [] kind = "response" -> {"content", "headers"}
    [] kind = "operation" -> {"parameters", "requestBody", "responses", "callbacks"}
    [] kind = "pathItem" -> {"parameters"} \cup operationKeys

\* a container has the fields it had, and those not rewritten as they were
FieldsKept(kind, before, after) ==
  /\ DOMAIN after = DOMAIN before
  /\ \A key \in DOMAIN before \ RewrittenSlots(kind) : after[key] = before[key]

ContentKept(before, after) ==
  /\ DOMAIN after = DOMAIN before
  /\ \A name \in DOMAIN before : FieldsKept("mediaType", before[name], after[name])

\* a parameter or a header
ParameterKept(kind, before, after) ==
  IF IsRef(before) THEN after = before
  ELSE /\ FieldsKept(kind, before, after)
       /\ Has(before, "content") => ContentKept(before["content"], after["content"])

HeadersKept(before, after) ==
  /\ DOMAIN after = DOMAIN before
  /\ \A name \in DOMAIN before : ParameterKept("header", before[name], after[name])

ParametersKept(before, after) ==
  /\ Len(after) = Len(before)
  /\ \A i \in 1..Len(before) : ParameterKept("parameter", before[i], after[i])

RequestBodyKept(before, after) ==
  IF IsRef(before) THEN after = before
  ELSE /\ FieldsKept("requestBody", before, after)
       /\ Has(before, "content") => ContentKept(before["content"], after["content"])

ResponseKept(before, after) ==
  IF IsRef(before) THEN after = before
  ELSE /\ FieldsKept("response", before, after)
       /\ Has(before, "content") => ContentKept(before["content"], after["content"])
       /\ Has(before, "headers") => HeadersKept(before["headers"], after["headers"])

RECURSIVE PathItemKept(_, _)

CallbackKept(before, after) ==
  IF IsRef(before) THEN after = before
  ELSE /\ DOMAIN after = DOMAIN before
       /\ \A path \in DOMAIN before : PathItemKept(before[path], after[path])

OperationKept(before, after) ==
  /\ FieldsKept("operation", before, after)
  /\ Has(before, "parameters")
       => ParametersKept(before["parameters"], after["parameters"])
  /\ Has(before, "requestBody")
       => RequestBodyKept(before["requestBody"], after["requestBody"])
  /\ Has(before, "responses")
       => /\ DOMAIN after["responses"] = DOMAIN before["responses"]
          /\ \A status \in DOMAIN before["responses"] :
               ResponseKept(before["responses"][status], after["responses"][status])
  /\ Has(before, "callbacks")
       => /\ DOMAIN after["callbacks"] = DOMAIN before["callbacks"]
          /\ \A name \in DOMAIN before["callbacks"] :
               CallbackKept(before["callbacks"][name], after["callbacks"][name])

PathItemKept(before, after) ==
  /\ FieldsKept("pathItem", before, after)
  /\ Has(before, "parameters")
       => ParametersKept(before["parameters"], after["parameters"])
  /\ \A key \in DOMAIN before \cap operationKeys :
       OperationKept(before[key], after[key])

\* a table of path items, absent on both sides or kept item by item
PathItemsKept(before, after, field) ==
  /\ Has(after, field) <=> Has(before, field)
  /\ Has(before, field) =>
       /\ DOMAIN after[field] = DOMAIN before[field]
       /\ \A path \in DOMAIN before[field] :
            PathItemKept(before[field][path], after[field][path])

\* the containers of the component tables
ComponentKept(category, before, after) ==
  CASE category = "parameters" -> ParameterKept("parameter", before, after)
    [] category = "headers" -> ParameterKept("header", before, after)
    [] category = "requestBodies" -> RequestBodyKept(before, after)
    [] category = "responses" -> ResponseKept(before, after)
    [] category = "callbacks" -> CallbackKept(before, after)
    [] OTHER -> TRUE

ContainersKept(before, after) ==
  /\ PathItemsKept(before, after, "paths")
  /\ PathItemsKept(before, after, "webhooks")
  /\ \A category \in DOMAIN before["components"] :
       \A name \in DOMAIN before["components"][category] :
         ComponentKept(category, before["components"][category][name],
                       after["components"][category][name])

\* a node is normalized, or a document is assembled
InitSiblings == InitNorm \/ InitDoc
NextSiblings == NextNorm \/ NextDoc
SpecSiblings == InitSiblings /\ [][NextSiblings]_vars

\* C27: after normalizeNullableSchema every literal node has, on itself or on
\* the first member of the anyOf it was wrapped in, the fields it had other
\* than nullable, type, the four bounds and the schema-bearing slots, with the
\* values they had; and in an assembled document every media type, parameter,
\* header, request body, response, operation and path item has the fields it
\* had, those that its transform does not rewrite with the values they had.
SiblingFieldsPreserved ==
  /\ pc = "once" => SiblingsKept(schema, once)
  /\ pc = "twice" => SiblingsKept(once, twice)
  /\ pc = "created" => ContainersKept(mergedDocument, document)

\* a nullable node without a type under properties is wrapped: its description
\* and its default are on the first member of the anyOf
SiblingFieldsPreservedWitness ==
  /\ pc = "once"
  /\ schema = Obj([properties |->
                     [a |-> Obj([nullable |-> Bool(TRUE), description |-> "d",
                                 default |-> Num(0)])]])
  /\ once = Obj([properties |->
                   [a |-> Obj([anyOf |-> <<Obj([description |-> "d", default |-> Num(0)]),
                                           NULL_TYPE_SCHEMA>>])]])

\* a document of version 3.1 whose legacy schemas were rewritten: the summary
\* of the path item and the encoding of the media type are as they were
ContainersPreservedWitness ==
  /\ pc = "created"
  /\ document # mergedDocument
  /\ Has(mergedDocument["paths"], "/a")
  /\ document["paths"]["/a"]["summary"] = "a"
  /\ document["paths"]["/a"]["get"] # mergedDocument["paths"]["/a"]["get"]
  /\ document["components"]["requestBodies"]["B"]["content"]["multipart/form-data"]["encoding"]
       = config["components"]["requestBodies"]["B"]["content"]["multipart/form-data"]["encoding"]


----------------------------------------------------------------------------
\* SwaggerModule.setup and the handlers it registers, for the path /docs.  A
\* handler runs from its first statement to its last before another request is
\* taken up: the handlers and the factory are synchronous.  factoryCalls and
\* sent record what happened; the code does not read them.

InitScriptRoute == "/docs/swagger-ui-init.js"
NestedInitScriptRoute == "/docs/docs/swagger-ui-init.js"
HtmlRoute == "/docs"
JsonRoute == "/docs-json"
YamlRoute == "/docs-yaml"

\* options?.key
OptionOf(opts, key) == IF opts = Undef THEN Undef ELSE Get(opts, key)

\* options?.ui ?? options?.swaggerUiEnabled ?? true
UiEnabled(opts) ==
  IF OptionOf(opts, "ui") # Undef THEN OptionOf(opts, "ui").b
  ELSE IF OptionOf(opts, "swaggerUiEnabled") # Undef
       THEN OptionOf(opts, "swaggerUiEnabled").b
       ELSE TRUE

\* options?.raw ?? true
RawOption(opts) ==
  IF OptionOf(opts, "raw") # Undef THEN OptionOf(opts, "raw") ELSE Bool(TRUE)

\* options.raw === true || (Array.isArray(options.raw) && options.raw.length > 0)
ServesDefinitions(raw) == raw = Bool(TRUE) \/ (IsList(raw) /\ Len(raw.l) > 0)
\* options.raw === true || options.raw.includes(format)
ServesFormat(raw, format) ==
  raw = Bool(TRUE) \/ (IsList(raw) /\ Includes(raw.l, format))

\* swaggerOptions.patchDocumentOnRequest is set
Patches(opts) == OptionOf(opts, "patchDocumentOnRequest") # Undef

\* the endpoints that serveSwaggerUi and serveDefinitions register
RegisteredRoutes(opts) ==
  (IF UiEnabled(opts)
   THEN {InitScriptRoute, NestedInitScriptRoute, HtmlRoute} ELSE {})
  \cup (IF ServesDefinitions(RawOption(opts)) /\ ServesFormat(RawOption(opts), "json")
        THEN {JsonRoute} ELSE {})
  \cup (IF ServesDefinitions(RawOption(opts)) /\ ServesFormat(RawOption(opts), "yaml")
        THEN {YamlRoute} ELSE {})

\* the document that the n-th invocation of the factory returns: a new object
\* each time
Build(n) == [openapi |-> "3.0.0", build |-> n]

\* typeof documentOrFactory === 'function'
IsFunction(given) == given.kind = "function"

\* a variant that never finds the document built
UnbuiltAlways(doc) == TRUE

\* !document
Unbuilt(doc) == doc = Undef

\* getBuiltDocument: whether it invokes the factory, and what it returns
InvokesFactory(doc, given) == Unbuilt(doc) /\ IsFunction(given)
getBuiltDocument(doc, given, calls) ==
  IF Unbuilt(doc)
  THEN IF IsFunction(given) THEN Build(calls + 1) ELSE given.value
  ELSE doc

\* patchDocumentOnRequest(req, res, document) for the n-th request
PatchedFor(n, doc) == [patched |-> doc, request |-> n]

\* buildSwaggerInitJS, JSON.stringify, jsyaml.dump and buildSwaggerHTML: each
\* response body is told by its format and by the document it was made of
InitJS(doc) == [format |-> "application/javascript", of |-> doc]
JsonBody(doc) == [format |-> "application/json", of |-> doc]
YamlBody(doc) == [format |-> "text/yaml", of |-> doc]
Html == [format |-> "text/html", of |-> Undef]

MaxRequests == 4   \* most requests served in a run

SetupOptions ==
  {Undef} \cup
  {u @@ r @@ p :
     u \in {EmptyObject, [ui |-> Bool(TRUE)], [ui |-> Bool(FALSE)],
            [swaggerUiEnabled |-> Bool(FALSE)],
            [ui |-> Bool(TRUE), swaggerUiEnabled |-> Bool(FALSE)]},
     r \in {EmptyObject} \cup
           {[raw |-> v] : v \in {Bool(TRUE), Bool(FALSE), List(<<>>),
                                 List(<<"json">>), List(<<"yaml", "json">>)}},
     p \in {EmptyObject, [patchDocumentOnRequest |-> [k |-> "function"]]}}

InitServe ==
  /\ pc = "setup"
  /\ documentOrFactory \in {[kind |-> "function"],
                            [kind |-> "object", value |-> Build(0)]}
  /\ swaggerOptions \in SetupOptions
  /\ registered = {}
  /\ builtDocument = Undef
  /\ swaggerUiInitJS = Undef
  /\ swaggerUiHtml = Undef
  /\ factoryCalls = 0
  /\ sent = <<>>
  /\ NormIdle /\ VersionIdle /\ DocIdle /\ RouteIdle /\ GroupIdle /\ WalkIdle /\ TagIdle

\* setup: serveDocuments registers the handlers; no handler runs
Setup ==
  /\ pc = "setup"
  /\ registered' = RegisteredRoutes(swaggerOptions)
  /\ pc' = "serving"
  /\ UNCHANGED <<documentOrFactory, swaggerOptions, builtDocument, swaggerUiInitJS, swaggerUiHtml, factoryCalls, sent>>
  /\ UNCHANGED <<normVars, versionVars, docVars, routeVars, groupVars, walkVars, tagVars>>

\* what every handler that serves the document does first
BuildOnRequest ==
  /\ builtDocument' = getBuiltDocument(builtDocument, documentOrFactory, factoryCalls)
  /\ factoryCalls' = IF InvokesFactory(builtDocument, documentOrFactory)
                     THEN factoryCalls + 1 ELSE factoryCalls

\* the document to serialize for the request being served
DocumentToSerialize ==
  IF Patches(swaggerOptions) THEN PatchedFor(Len(sent) + 1, builtDocument')
  ELSE builtDocument'

\* lines 703-729 and 735-763: the two handlers of swagger-ui-init.js
RequestInitScript ==
  /\ pc = "serving"
  /\ Len(sent) < MaxRequests
  /\ \E route \in registered \cap {InitScriptRoute, NestedInitScriptRoute} :
       /\ BuildOnRequest
       /\ IF Patches(swaggerOptions)
          THEN /\ sent' = Append(sent, [route |-> route,
                                        body |-> InitJS(DocumentToSerialize)])
               /\ UNCHANGED swaggerUiInitJS
          ELSE /\ swaggerUiInitJS' = IF swaggerUiInitJS = Undef
                                     THEN InitJS(builtDocument')
                                     ELSE swaggerUiInitJS
               /\ sent' = Append(sent, [route |-> route, body |-> swaggerUiInitJS'])
  /\ UNCHANGED <<pc, documentOrFactory, swaggerOptions, registered, swaggerUiHtml>>
  /\ UNCHANGED <<normVars, versionVars, docVars, routeVars, groupVars, walkVars, tagVars>>

\* lines 771-781: the page of the UI
RequestHtml ==
  /\ pc = "serving"
  /\ Len(sent) < MaxRequests
  /\ HtmlRoute \in registered
  /\ swaggerUiHtml' = IF swaggerUiHtml = Undef THEN Html ELSE swaggerUiHtml
  /\ sent' = Append(sent, [route |-> HtmlRoute, body |-> swaggerUiHtml'])
  /\ UNCHANGED <<pc, documentOrFactory, swaggerOptions, registered, builtDocument, swaggerUiInitJS, factoryCalls>>
  /\ UNCHANGED <<normVars, versionVars, docVars, routeVars, groupVars, walkVars, tagVars>>

\* lines 810-822
RequestJson ==
  /\ pc = "serving"
  /\ Len(sent) < MaxRequests
  /\ JsonRoute \in registered
  /\ BuildOnRequest
  /\ sent' = Append(sent, [route |-> JsonRoute, body |-> JsonBody(DocumentToSerialize)])
  /\ UNCHANGED <<pc, documentOrFactory, swaggerOptions, registered, swaggerUiInitJS, swaggerUiHtml>>
  /\ UNCHANGED <<normVars, versionVars, docVars, routeVars, groupVars, walkVars, tagVars>>

\* lines 824-840
RequestYaml ==
  /\ pc = "serving"
  /\ Len(sent) < MaxRequests
  /\ YamlRoute \in registered
  /\ BuildOnRequest
  /\ sent' = Append(sent, [route |-> YamlRoute, body |-> YamlBody(DocumentToSerialize)])
  /\ UNCHANGED <<pc, documentOrFactory, swaggerOptions, registered, swaggerUiInitJS, swaggerUiHtml>>
  /\ UNCHANGED <<normVars, versionVars, docVars, routeVars, groupVars, walkVars, tagVars>>

NextServe == Setup \/ RequestInitScript \/ RequestHtml \/ RequestJson \/ RequestYaml

SpecServe == InitServe /\ [][NextServe]_vars

----------------------------------------------------------------------------
\* Properties of the serving layer

DocumentRoutes == {InitScriptRoute, NestedInitScriptRoute, JsonRoute, YamlRoute}
GivenFactory == pc \in {"setup", "serving"} /\ IsFunction(documentOrFactory)

\* the requests served so far that asked for the document
DocumentRequests == {i \in 1..Len(sent) : sent[i].route \in DocumentRoutes}

\* the built document that a response was made of, the patch aside
ServedDocument(i) ==
  IF Patches(swaggerOptions) THEN sent[i].body.of.patched ELSE sent[i].body.of

\* no invocation before the first request for the document, one from then
\* on, and every such response made of the document of that invocation, with
\* the patch of its own request when a patch is configured
BuiltOnceSoFar ==
  GivenFactory =>
    /\ factoryCalls = IF DocumentRequests = {} THEN 0 ELSE 1
    /\ \A i \in DocumentRequests :
         /\ ServedDocument(i) = Build(1)
         /\ Patches(swaggerOptions) => sent[i].body.of.request = i

\* a request for the document invokes the factory if and only if it is the
\* first one
BuiltOnFirstRequest ==
  GivenFactory /\ Len(sent') = Len(sent) + 1 =>
    IF sent'[Len(sent')].route \in DocumentRoutes /\ DocumentRequests = {}
    THEN factoryCalls' = factoryCalls + 1
    ELSE factoryCalls' = factoryCalls

\* C30: given a factory, setup does not invoke it; the first request to the
\* init script, the JSON or the YAML endpoint invokes it, and no later request
\* does, in whatever order the requests come: every response is made of the
\* document of that one invocation, patched for its own request when
\* patchDocumentOnRequest is configured.
LazySingleBuild == [](BuiltOnceSoFar) /\ [][BuiltOnFirstRequest]_vars

\* a factory and a patch: the page, then YAML, the init script and JSON are
\* served after one invocation
LazySingleBuildWitness ==
  /\ GivenFactory
  /\ Patches(swaggerOptions)
  /\ Len(sent) = 4
  /\ sent[1].route = HtmlRoute
  /\ sent[2].route = YamlRoute
  /\ sent[3].route = NestedInitScriptRoute
  /\ sent[4].route = JsonRoute
  /\ factoryCalls = 1
  /\ sent[4].body = JsonBody(PatchedFor(4, Build(1)))

\* setup is over and nothing was requested: the factory was not invoked
NotBuiltBySetupWitness ==
  /\ GivenFactory
  /\ pc = "serving"
  /\ registered = DocumentRoutes \cup {HtmlRoute}
  /\ sent = <<>>
  /\ factoryCalls = 0
  /\ builtDocument = Undef

====
